---- MODULE Spec2Model ----
(***************************************************************************)
(* Voice-recovery scheduler of the omnichannel agentic-commerce backend    *)
(* (backend/app/services/voice_recovery_service.py) as a state machine.    *)
(*                                                                         *)
(* Time is counted in seconds since midnight UTC of day 0, money in cents. *)
(* The dictionaries of the in-memory store keyed by generated ids          *)
(* (voice_jobs_by_id, voice_calls_by_id) are sequences: the id of a row is *)
(* its index, and the order of the sequence is the insertion order Python  *)
(* iterates a dict in.                                                     *)
(***************************************************************************)
EXTENDS Integers, Sequences, FiniteSets, Bags, TLC

\* ---------------------------------------------------------------- bounds
\* The clock starts StartBeforeMidnight steps before midnight and is advanced
\* at most MaxAdvances times, so a run crosses the UTC day boundary.
StartBeforeMidnight == 1
MaxAdvances == 2
\* At most MaxJobs VoiceJobs are ever enqueued (bounds the cart updates).
MaxJobs == 2
\* The admin runs process_due_work by hand at most MaxManualTicks times.
MaxManualTicks == 1

\* ------------------------------------------------------- program constants
SecondsPerDay == 86400
SecondsPerHour == 3600
SecondsPerMinute == 60
AlertRingSize == 500
DefaultBackoff == <<60, 300, 900>>

StartTime == SecondsPerDay - StartBeforeMidnight * SecondsPerMinute
MaxTime == StartTime + MaxAdvances * SecondsPerMinute

NoTime == -1
NoProviderCallId == 0
NoPendingCall == [id |-> 0]
NoCallback == [accepted |-> FALSE, matched |-> FALSE, idempotent |-> FALSE, reason |-> "none"]

Users == {"u1", "u2"}
CartOrder == <<"c1", "c2">>
Carts == {CartOrder[i] : i \in 1..Len(CartOrder)}
Tickers == {"scheduler", "admin"}

VARIABLES
    now,                          \* InMemoryStore.utc_now()
    superu_enabled,               \* SuperUClient.enabled
    provider_calls,               \* bag of the start_outbound_call invocations the provider saw
    voice_settings,
    users_by_id,
    carts_by_id,
    voice_jobs_by_id,
    voice_calls_by_id,
    voice_suppressions_by_user,
    voice_call_idempotency,
    voice_alerts,
    notifications,
    support_tickets,
    pc,                           \* per ticker: position inside process_due_work
    tick_now,                     \* per ticker: the `now` of the running tick
    tick_keys,                    \* per ticker: existing_keys of the running enqueue
    tick_jobs,                    \* per ticker: due jobs still to process (snapshots)
    tick_calls,                   \* per ticker: active calls still to poll (snapshots)
    tick_call,                    \* per ticker: the call copy _update_call_terminal holds
    followup_log,                 \* bag of the calls _apply_outcome_actions was invoked with
    callback_result,              \* what ingest_provider_callback returned last
    manual_ticks,                 \* how often the admin ran process_due_work
    planner,                      \* LLMClient.plan_actions: the call under way and its locals
    request,                      \* Orchestrator.process_message: the request and its outcome
    run,                          \* the multi-action executors: the run under way and its locals
    session,                      \* one chat session: its messages and its interaction records
    admin,                        \* store.admin_activity_logs and the record calls under way
    orders,                       \* store.orders_by_id, store.idempotency_keys and the create_order calls
    breaker,                      \* the LLM client's CircuitBreaker and its clock
    loop                          \* _voice_recovery_scheduler_loop: the task, its stop event and its clock

storeVars == <<voice_settings, users_by_id, carts_by_id, voice_jobs_by_id,
               voice_calls_by_id, voice_suppressions_by_user,
               voice_call_idempotency, voice_alerts, notifications,
               support_tickets>>
tickVars == <<pc, tick_now, tick_keys, tick_jobs, tick_calls, tick_call>>
voiceVars == <<now, superu_enabled, provider_calls, followup_log, callback_result, storeVars,
               tickVars, manual_ticks>>
serviceVars == <<session, admin, orders, breaker, loop>>
orchVars == <<planner, request, run, serviceVars>>
vars == <<voiceVars, orchVars>>

\* No call of plan_actions, no request and no multi-action run is under way.
Idle == [pc |-> "idle"]
ServicesIdle ==
    session = Idle /\ admin = Idle /\ orders = Idle /\ breaker = Idle /\ loop = Idle
OrchestratorIdle == planner = Idle /\ request = Idle /\ run = Idle /\ ServicesIdle

\* ---------------------------------------------------------------- helpers
Max(a, b) == IF a >= b THEN a ELSE b
Min(a, b) == IF a <= b THEN a ELSE b
Last(s) == s[Len(s)]

RECURSIVE SeqFilterPositive(_)
SeqFilterPositive(s) ==
    IF s = <<>> THEN <<>>
    ELSE IF Head(s) > 0 THEN <<Head(s)>> \o SeqFilterPositive(Tail(s))
    ELSE SeqFilterPositive(Tail(s))

\* _normalize_backoff_list: keeps the positive entries, in order; the default
\* list when none is left.
NormalizeBackoffList(raw) ==
    LET values == SeqFilterPositive(raw)
    IN IF values = <<>> THEN DefaultBackoff ELSE values

DayOf(t) == t \div SecondsPerDay
LocalHour(t, tzOffset) == ((t + tzOffset) \div SecondsPerHour) % 24

\* ------------------------------------------------------------ store reads
\* _suppressed_users
SuppressedUsers == {row.userId : row \in voice_suppressions_by_user}

\* _get_user / _get_cart: the row, or a row without id when the key is unknown
NoUser == [id |-> "", phone |-> "", tzOffset |-> 0]
GetUser(user_id) ==
    IF user_id \in DOMAIN users_by_id THEN users_by_id[user_id] ELSE NoUser
NoCart == [id |-> "", userId |-> "", status |-> "", itemCount |-> 0, updatedAt |-> NoTime]
GetCart(cart_id) ==
    IF cart_id \in DOMAIN carts_by_id THEN carts_by_id[cart_id] ELSE NoCart

RecoveryKey(cart) == <<cart.id, cart.updatedAt>>
JobKeys(jobs) == {jobs[i].recoveryKey : i \in 1..Len(jobs)}

\* ------------------------------------------------------------ quiet hours
\* _in_quiet_hours
InQuietHours(user, tnow, settings) ==
    LET hour == LocalHour(tnow, user.tzOffset)
        start == settings.quietHoursStart
        end == settings.quietHoursEnd
    IN IF start = end THEN FALSE
       ELSE IF start < end THEN start <= hour /\ hour < end
       ELSE hour >= start \/ hour < end

\* A fault to detect: `end` o'clock of the local day of `now`, never of the
\* day after
NextNonQuietTimeSameDay(user, tnow, settings) ==
    LET localNow == tnow + user.tzOffset
        end == settings.quietHoursEnd
        today == (localNow \div SecondsPerDay) * SecondsPerDay + end * SecondsPerHour
        bumped == IF today <= localNow THEN today + SecondsPerMinute ELSE today
    IN IF settings.quietHoursStart = end THEN tnow + SecondsPerMinute ELSE bumped - user.tzOffset

\* _next_non_quiet_time: `end` o'clock local time of today or tomorrow
NextNonQuietTime(user, tnow, settings) ==
    LET localNow == tnow + user.tzOffset
        hour == LocalHour(tnow, user.tzOffset)
        start == settings.quietHoursStart
        end == settings.quietHoursEnd
        today == (localNow \div SecondsPerDay) * SecondsPerDay + end * SecondsPerHour
        target == IF start < end
                  THEN (IF hour >= end THEN today + SecondsPerDay ELSE today)
                  ELSE IF hour >= start THEN today + SecondsPerDay
                  ELSE IF hour < end /\ today <= localNow THEN today + SecondsPerDay
                  ELSE today
        bumped == IF target <= localNow THEN target + SecondsPerMinute ELSE target
    IN IF start = end THEN tnow + SecondsPerMinute ELSE bumped - user.tzOffset

\* ------------------------------------------------------------- guardrails
CallsToday(calls, tnow) ==
    {i \in 1..Len(calls) : DayOf(calls[i].createdAt) = DayOf(tnow)}

\* A fault to detect: the guardrails without the cap per user
GuardrailsWithoutUserCap(calls, user_id, settings, tnow) ==
    LET callsToday == CallsToday(calls, tnow)
        spendToday == Cardinality(callsToday) * settings.estimatedCostPerCallUsd
    IN IF Cardinality(callsToday) >= settings.maxCallsPerDay
       THEN "max_calls_per_day_reached"
       ELSE IF spendToday + settings.estimatedCostPerCallUsd > settings.dailyBudgetUsd
       THEN "daily_budget_exceeded"
       ELSE "ok"

\* _budget_and_cap_guardrails
BudgetAndCapGuardrails(calls, user_id, settings, tnow) ==
    LET callsToday == CallsToday(calls, tnow)
        userCallsToday == {i \in callsToday : calls[i].userId = user_id}
        spendToday == Cardinality(callsToday) * settings.estimatedCostPerCallUsd
    IN IF Cardinality(callsToday) >= settings.maxCallsPerDay
       THEN "max_calls_per_day_reached"
       ELSE IF Cardinality(userCallsToday) >= settings.maxCallsPerUserPerDay
       THEN "max_calls_per_user_per_day_reached"
       ELSE IF spendToday + settings.estimatedCostPerCallUsd > settings.dailyBudgetUsd
       THEN "daily_budget_exceeded"
       ELSE "ok"

\* ------------------------------------------------------------ store writes
\* _complete_job
CompleteJob(jobs, job_id, status, error) ==
    IF job_id \notin DOMAIN jobs THEN jobs
    ELSE [jobs EXCEPT ![job_id] =
            [@ EXCEPT !.status = status,
                      !.lastError = error,
                      !.nextRunAt = IF status \in {"completed", "cancelled", "dead_letter"}
                                    THEN NoTime ELSE @]]

\* A fault to detect: the reschedule that does not write the attempt
RescheduleJobForgetsAttempt(jobs, job_id, attempt, next_run, error) ==
    IF job_id \notin DOMAIN jobs THEN jobs
    ELSE [jobs EXCEPT ![job_id] =
            [@ EXCEPT !.status = "retrying",
                      !.nextRunAt = next_run,
                      !.lastError = error]]

\* _reschedule_job
RescheduleJob(jobs, job_id, attempt, next_run, error) ==
    IF job_id \notin DOMAIN jobs THEN jobs
    ELSE [jobs EXCEPT ![job_id] =
            [@ EXCEPT !.status = "retrying",
                      !.attempt = Max(0, attempt),
                      !.nextRunAt = next_run,
                      !.lastError = error]]

\* _append_alert: appended, the list cut to its last AlertRingSize entries
AppendAlert(alerts, code, severity) ==
    LET grown == Append(alerts, [code |-> code, severity |-> severity])
    IN IF Len(grown) > AlertRingSize
       THEN SubSeq(grown, Len(grown) - AlertRingSize + 1, Len(grown))
       ELSE grown

\* _get_or_create_call: the id of the first call with the job's recoveryKey,
\* 0 when there is none
FindCall(calls, recovery_key) ==
    LET hits == {i \in 1..Len(calls) : calls[i].recoveryKey = recovery_key}
    IN IF hits = {} THEN 0 ELSE CHOOSE i \in hits : \A k \in hits : i <= k

NewCall(job, user, settings, wall) ==
    [recoveryKey |-> job.recoveryKey,
     userId |-> user.id,
     sessionId |-> job.sessionId,
     cartId |-> job.cartId,
     status |-> "queued",
     attempts |-> <<>>,
     providerCallId |-> NoProviderCallId,
     outcome |-> "",
     followupApplied |-> FALSE,
     estimatedCostUsd |-> settings.estimatedCostPerCallUsd,
     createdAt |-> wall,
     nextRetryAt |-> NoTime,
     lastError |-> "",
     providerEventKeys |-> <<>>]

GetOrCreateCall(calls, job, user, settings, wall) ==
    IF FindCall(calls, job.recoveryKey) # 0 THEN calls
    ELSE Append(calls, NewCall(job, user, settings, wall))

\* _record_call_event: attempt_index is attempt_number, or the job's attempt
RecordCallEvent(calls, job, user, settings, wall, status, error, provider_call_id, attempt_index, next_retry_at) ==
    LET withCall == GetOrCreateCall(calls, job, user, settings, wall)
        id == FindCall(withCall, job.recoveryKey)
        event == [attempt |-> Max(1, attempt_index), status |-> status, error |-> error]
    IN [withCall EXCEPT ![id] =
          [@ EXCEPT !.attempts = Append(@, event),
                    !.status = status,
                    !.lastError = error,
                    !.nextRetryAt = next_retry_at,
                    !.providerCallId = IF provider_call_id # NoProviderCallId
                                       THEN provider_call_id ELSE @]]

\* ---------------------------------------------------------- initial state
\* The voice settings a run starts with: the seeded limits with the recovery
\* enabled and the provider configured as the tests of the service configure
\* it, quiet hours off, carts abandoned after a minute; and three variations
\* of the limits. Money is in cents.
BaseSettings ==
    [enabled |-> TRUE, killSwitch |-> FALSE, abandonmentMinutes |-> 1,
     maxAttemptsPerCart |-> 3, maxCallsPerUserPerDay |-> 2, maxCallsPerDay |-> 300,
     dailyBudgetUsd |-> 30000, estimatedCostPerCallUsd |-> 70,
     quietHoursStart |-> 0, quietHoursEnd |-> 0,
     retryBackoffSeconds |-> <<60, 120>>,
     assistantId |-> "assistant_123", fromPhoneNumber |-> "+15550004444",
     alertBacklogThreshold |-> 50, alertFailureRatioPercent |-> 35]

SettingsChoices ==
    { [BaseSettings EXCEPT !.maxAttemptsPerCart = 4, !.maxCallsPerUserPerDay = 1,
                           !.dailyBudgetUsd = 100],
      [BaseSettings EXCEPT !.retryBackoffSeconds = <<60>>],
      [BaseSettings EXCEPT !.maxAttemptsPerCart = 1, !.maxCallsPerDay = 1,
                           !.quietHoursStart = 23, !.retryBackoffSeconds = <<60>>] }

InitUsers ==
    [u \in Users |-> [id |-> u, phone |-> "+15550003333", tzOffset |-> 0]]

\* Every cart was last updated 45 minutes before the run starts; the second
\* cart is empty.
InitCarts ==
    [c \in Carts |->
        [id |-> c, userId |-> IF c = "c1" THEN "u1" ELSE "u2", sessionId |-> "session_voice",
         status |-> "active",
         itemCount |-> IF c = "c1" THEN 1 ELSE 0, updatedAt |-> StartTime - 45 * SecondsPerMinute]]

InitStoreAt(settings, client_enabled, start) ==
    /\ now = start
    /\ voice_settings = settings
    /\ superu_enabled = client_enabled
    /\ provider_calls = EmptyBag
    /\ users_by_id = InitUsers
    /\ carts_by_id = InitCarts
    /\ voice_jobs_by_id = <<>>
    /\ voice_calls_by_id = <<>>
    /\ voice_suppressions_by_user = {}
    /\ voice_call_idempotency = {}
    /\ voice_alerts = <<>>
    /\ notifications = <<>>
    /\ support_tickets = <<>>
    /\ pc = [t \in Tickers |-> "idle"]
    /\ tick_now = [t \in Tickers |-> NoTime]
    /\ tick_keys = [t \in Tickers |-> {}]
    /\ tick_jobs = [t \in Tickers |-> <<>>]
    /\ tick_calls = [t \in Tickers |-> <<>>]
    /\ tick_call = [t \in Tickers |-> NoPendingCall]
    /\ followup_log = EmptyBag
    /\ callback_result = NoCallback
    /\ manual_ticks = 0

InitStore(settings, client_enabled) == InitStoreAt(settings, client_enabled, StartTime)

Init ==
    /\ \E start \in (SettingsChoices \X {TRUE}) \cup ({BaseSettings} \X {FALSE}) :
          InitStore(start[1], start[2])
    /\ OrchestratorIdle

\* ------------------------------------------------------------ environment
\* The wall clock moves on, between two ticks of the scheduler loop.
Advance ==
    /\ UNCHANGED orchVars
    /\ pc["scheduler"] = "idle"
    /\ now + SecondsPerMinute <= MaxTime
    /\ now' = now + SecondsPerMinute
    /\ UNCHANGED <<superu_enabled, provider_calls, followup_log, callback_result, storeVars,
                   tickVars, manual_ticks>>

\* CartService._recalculate_cart: a shopper changes a cart, which stamps it.
\* Only an empty cart, or one whose present snapshot was enqueued, is changed.
CartUpdate(c, count) ==
    /\ UNCHANGED orchVars
    /\ Len(voice_jobs_by_id) < MaxJobs
    /\ RecoveryKey(carts_by_id[c]) \in JobKeys(voice_jobs_by_id) \/ carts_by_id[c].itemCount = 0
    /\ count # carts_by_id[c].itemCount
    /\ carts_by_id[c].updatedAt # now
    /\ carts_by_id' = [carts_by_id EXCEPT ![c].itemCount = count, ![c].updatedAt = now]
    /\ UNCHANGED <<manual_ticks, now, superu_enabled, provider_calls, followup_log, callback_result, voice_settings, users_by_id,
                   voice_jobs_by_id, voice_calls_by_id, voice_suppressions_by_user,
                   voice_call_idempotency, voice_alerts, notifications,
                   support_tickets, tickVars>>

\* update_settings: the updates merged into the settings, the limits clamped
SettingsUpdates ==
    { [killSwitch |-> TRUE], [killSwitch |-> FALSE] }

MergeSettings(current, updates) ==
    LET merged == [k \in DOMAIN current |->
                     IF k \in DOMAIN updates THEN updates[k] ELSE current[k]]
    IN [merged EXCEPT !.abandonmentMinutes = Max(1, @),
                      !.maxAttemptsPerCart = Max(1, @),
                      !.maxCallsPerUserPerDay = Max(1, @),
                      !.maxCallsPerDay = Max(1, @),
                      !.dailyBudgetUsd = Max(0, @),
                      !.estimatedCostPerCallUsd = Max(0, @),
                      !.quietHoursStart = Max(0, Min(23, @)),
                      !.quietHoursEnd = Max(0, Min(23, @)),
                      !.retryBackoffSeconds = NormalizeBackoffList(@),
                      !.alertBacklogThreshold = Max(1, @),
                      !.alertFailureRatioPercent = Max(1, Min(100, @))]

UpdateSettings(updates) ==
    /\ UNCHANGED orchVars
    /\ voice_settings' = MergeSettings(voice_settings, updates)
    /\ UNCHANGED <<manual_ticks, now, superu_enabled, provider_calls, followup_log, callback_result, users_by_id, carts_by_id,
                   voice_jobs_by_id, voice_calls_by_id, voice_suppressions_by_user,
                   voice_call_idempotency, voice_alerts, notifications,
                   support_tickets, tickVars>>

\* suppress_user: the user's entry is written, replacing an older one
SuppressEntry(suppressions, user_id, reason) ==
    {row \in suppressions : row.userId # user_id}
        \cup {[userId |-> user_id, reason |-> IF reason = "" THEN "manual_suppression" ELSE reason]}

SuppressUser(user_id, reason) ==
    /\ UNCHANGED orchVars
    /\ voice_suppressions_by_user' = SuppressEntry(voice_suppressions_by_user, user_id, reason)
    /\ UNCHANGED <<manual_ticks, now, superu_enabled, provider_calls, followup_log, callback_result, voice_settings, users_by_id,
                   carts_by_id, voice_jobs_by_id, voice_calls_by_id,
                   voice_call_idempotency, voice_alerts, notifications,
                   support_tickets, tickVars>>

\* unsuppress_user
UnsuppressUser(user_id) ==
    /\ UNCHANGED orchVars
    /\ voice_suppressions_by_user' = {row \in voice_suppressions_by_user : row.userId # user_id}
    /\ UNCHANGED <<manual_ticks, now, superu_enabled, provider_calls, followup_log, callback_result, voice_settings, users_by_id,
                   carts_by_id, voice_jobs_by_id, voice_calls_by_id,
                   voice_call_idempotency, voice_alerts, notifications,
                   support_tickets, tickVars>>

\* ------------------------------------------------- process_due_work: enqueue
\* _has_newer_order: an order of the user created after `since`. The store
\* holds orders only where create_order is part of the run.
HasNewerOrder(user_id, since) ==
    /\ orders # Idle
    /\ \E order \in orders.orders_by_id :
          order.userId = user_id /\ order.createdAt > since

NewJob(cart, tnow) ==
    [status |-> "queued", userId |-> cart.userId, sessionId |-> cart.sessionId,
     cartId |-> cart.id, recoveryKey |-> RecoveryKey(cart), attempt |-> 0,
     nextRunAt |-> tnow, lastError |-> ""]

\* Whether the loop of _enqueue_abandoned_cart_jobs enqueues this cart.
\* existing_keys holds the keys of the jobs read before the loop and of the
\* jobs the loop has added.
EnqueuesCart(cart, existing_keys, idempotency, settings, tnow) ==
    /\ cart.userId # ""
    /\ cart.itemCount > 0
    /\ cart.updatedAt # NoTime
    /\ cart.updatedAt <= tnow - settings.abandonmentMinutes * SecondsPerMinute
    /\ ~HasNewerOrder(cart.userId, cart.updatedAt)
    /\ RecoveryKey(cart) \notin {row.key : row \in idempotency}
    /\ RecoveryKey(cart) \notin existing_keys

RECURSIVE EnqueueLoop(_, _, _, _, _, _)
EnqueueLoop(cart_ids, jobs, existing_keys, idempotency, settings, tnow) ==
    IF cart_ids = <<>> THEN jobs
    ELSE LET cart == carts_by_id[Head(cart_ids)]
         IN IF EnqueuesCart(cart, existing_keys, idempotency, settings, tnow)
            THEN EnqueueLoop(Tail(cart_ids), Append(jobs, NewJob(cart, tnow)),
                             existing_keys \cup {RecoveryKey(cart)}, idempotency, settings, tnow)
            ELSE EnqueueLoop(Tail(cart_ids), jobs, existing_keys, idempotency, settings, tnow)

\* _enqueue_abandoned_cart_jobs, after existing_keys was read
EnqueueAbandonedCartJobs(jobs, existing_keys, idempotency, settings, tnow) ==
    IF ~settings.enabled THEN jobs
    ELSE EnqueueLoop(CartOrder, jobs, existing_keys, idempotency, settings, tnow)

\* process_due_work, its start: `now` is read, and _enqueue_abandoned_cart_jobs
\* reads the keys of the jobs there are. A ticker starts one tick per instant
\* of the clock: the scheduler loop sleeps at least five seconds between ticks.
TickStart(t) ==
    /\ UNCHANGED orchVars
    /\ pc[t] = "idle"
    /\ tick_now[t] < now
    /\ IF t = "admin"
       THEN manual_ticks < MaxManualTicks /\ manual_ticks' = manual_ticks + 1
       ELSE UNCHANGED manual_ticks
    /\ tick_now' = [tick_now EXCEPT ![t] = now]
    /\ tick_keys' = [tick_keys EXCEPT ![t] = JobKeys(voice_jobs_by_id)]
    /\ pc' = [pc EXCEPT ![t] = "enqueue"]
    /\ UNCHANGED <<now, superu_enabled, provider_calls, followup_log,
                   callback_result, storeVars, tick_jobs, tick_calls, tick_call>>

\* _enqueue_abandoned_cart_jobs, its loop over the carts
TickEnqueue(t) ==
    /\ UNCHANGED orchVars
    /\ pc[t] = "enqueue"
    /\ voice_jobs_by_id' = EnqueueAbandonedCartJobs(voice_jobs_by_id, tick_keys[t],
                                                    voice_call_idempotency, voice_settings,
                                                    tick_now[t])
    /\ pc' = [pc EXCEPT ![t] = "due"]
    /\ UNCHANGED <<manual_ticks, now, superu_enabled, provider_calls, followup_log,
                   callback_result, voice_settings, users_by_id, carts_by_id,
                   voice_calls_by_id, voice_suppressions_by_user, voice_call_idempotency,
                   voice_alerts, notifications, support_tickets, tick_now, tick_keys,
                   tick_jobs, tick_calls, tick_call>>

\* ------------------------------------------- process_due_work: the due jobs
IsDue(job, tnow) ==
    /\ job.status \in {"queued", "retrying"}
    /\ job.nextRunAt # NoTime
    /\ job.nextRunAt <= tnow

\* list.sort(key=nextRunAt): stable, ascending
RECURSIVE InsertByNextRun(_, _)
InsertByNextRun(sorted, row) ==
    IF sorted = <<>> THEN <<row>>
    ELSE IF Head(sorted).job.nextRunAt <= row.job.nextRunAt
    THEN <<Head(sorted)>> \o InsertByNextRun(Tail(sorted), row)
    ELSE <<row>> \o sorted

\* A fault to detect: the due jobs left in the order of the store
SortByNextRunKeepsOrder(rows) == rows

RECURSIVE SortByNextRun(_)
SortByNextRun(rows) ==
    IF rows = <<>> THEN <<>>
    ELSE InsertByNextRun(SortByNextRun(SubSeq(rows, 1, Len(rows) - 1)), Last(rows))

RECURSIVE DueRows(_, _, _)
DueRows(jobs, i, tnow) ==
    IF i > Len(jobs) THEN <<>>
    ELSE (IF IsDue(jobs[i], tnow) THEN <<[id |-> i, job |-> jobs[i]]>> ELSE <<>>)
            \o DueRows(jobs, i + 1, tnow)

\* _process_due_jobs, the selection: copies of the due jobs, sorted
DueJobs(jobs, tnow) == SortByNextRun(DueRows(jobs, 1, tnow))

TickSelectDue(t) ==
    /\ UNCHANGED orchVars
    /\ pc[t] = "due"
    /\ tick_jobs' = [tick_jobs EXCEPT ![t] = DueJobs(voice_jobs_by_id, tick_now[t])]
    /\ pc' = [pc EXCEPT ![t] = "jobs"]
    /\ UNCHANGED <<manual_ticks, now, superu_enabled, provider_calls, followup_log,
                   callback_result, storeVars, tick_now, tick_keys, tick_calls, tick_call>>

\* --------------------------------------------------------- the job executor
ProviderResponses == {"call_id", "no_call_id", "raise"}

\* A fault to detect: the executor that looks at the quiet hours before it
\* looks at the suppression list
ChecksQuietBeforeSuppression(job, settings, suppressed, calls, client_enabled, tnow) ==
    LET user == GetUser(job.userId)
        cart == GetCart(job.cartId)
        budget == BudgetAndCapGuardrails(calls, user.id, settings, tnow)
    IN IF user = NoUser \/ cart = NoCart \/ cart.itemCount <= 0 THEN "cart_or_user_missing"
       ELSE IF InQuietHours(user, tnow, settings) THEN "quiet_hours"
       ELSE IF user.id \in suppressed THEN "suppressed_user"
       ELSE IF user.phone = "" THEN "missing_phone"
       ELSE IF budget # "ok" THEN budget
       ELSE IF ~client_enabled THEN "provider_not_configured"
       ELSE IF settings.assistantId = "" \/ settings.fromPhoneNumber = "" THEN "provider_not_configured"
       ELSE "dispatch"

\* The checks of _process_single_job between the kill switch and the provider
\* call, in the order of the code: the name of the first one that fails,
\* "dispatch" when none does.
ChecksAfterKillSwitch(job, settings, suppressed, calls, client_enabled, tnow) ==
    LET user == GetUser(job.userId)
        cart == GetCart(job.cartId)
        budget == BudgetAndCapGuardrails(calls, user.id, settings, tnow)
    IN IF user = NoUser \/ cart = NoCart \/ cart.itemCount <= 0 THEN "cart_or_user_missing"
       ELSE IF user.id \in suppressed THEN "suppressed_user"
       ELSE IF user.phone = "" THEN "missing_phone"
       ELSE IF InQuietHours(user, tnow, settings) THEN "quiet_hours"
       ELSE IF budget # "ok" THEN budget
       ELSE IF ~client_enabled THEN "provider_not_configured"
       ELSE IF settings.assistantId = "" \/ settings.fromPhoneNumber = "" THEN "provider_not_configured"
       ELSE "dispatch"

\* Faults to detect: the executor without the kill switch, and the executor
\* that takes nobody for suppressed
JobDecisionIgnoresKillSwitch(job, settings, suppressed, calls, client_enabled, tnow) ==
    ChecksAfterKillSwitch(job, settings, suppressed, calls, client_enabled, tnow)

JobDecisionIgnoresSuppression(job, settings, suppressed, calls, client_enabled, tnow) ==
    IF settings.killSwitch THEN "kill_switch"
    ELSE ChecksAfterKillSwitch(job, settings, {}, calls, client_enabled, tnow)

\* The checks of _process_single_job before the provider call
JobDecision(job, settings, suppressed, calls, client_enabled, tnow) ==
    IF settings.killSwitch THEN "kill_switch"
    ELSE ChecksAfterKillSwitch(job, settings, suppressed, calls, client_enabled, tnow)

\* A fault to detect: every retry waits for the first delay of the list
RetryDelayAlwaysFirst(backoffs, attempt_number) == backoffs[1]

\* The delay before the retry that follows failed attempt attempt_number
RetryDelay(backoffs, attempt_number) ==
    backoffs[Min(attempt_number - 1, Len(backoffs) - 1) + 1]

SetIdempotency(idempotency, key, value) ==
    {row \in idempotency : row.key # key} \cup {[key |-> key, value |-> value]}

\* _process_single_job on the copy `job` of job `job_id`: the store after it.
\* `response` is what the provider answers if it is called; `call_ref` is the
\* call id the provider hands out.
ProcessSingleJob(job_id, job, settings, tnow, wall, response, call_ref) ==
    LET user == GetUser(job.userId)
        decision == JobDecision(job, settings, SuppressedUsers, voice_calls_by_id, superu_enabled, tnow)
        attempt_number == job.attempt + 1
        max_attempts == Max(1, settings.maxAttemptsPerCart)
        backoffs == NormalizeBackoffList(settings.retryBackoffSeconds)
        delay == RetryDelay(backoffs, attempt_number)
        next_run == tnow + delay
        quiet_run == NextNonQuietTime(user, tnow, settings)
        provider_call_id == IF response = "call_id" THEN call_ref ELSE NoProviderCallId
        same == [jobs |-> voice_jobs_by_id, calls |-> voice_calls_by_id,
                 alerts |-> voice_alerts, idempotency |-> voice_call_idempotency,
                 provider |-> provider_calls, result |-> "cancelled"]
        cancelled(error) == CompleteJob(voice_jobs_by_id, job_id, "cancelled", error)
        event(status, error, call_id, attempt_index, retry_at) ==
            RecordCallEvent(voice_calls_by_id, job, user, settings, wall, status, error,
                            call_id, attempt_index, retry_at)
        called(accepted) ==
            provider_calls (+) SetToBag({[jobId |-> job_id, recoveryKey |-> job.recoveryKey,
                                          userId |-> user.id, accepted |-> accepted]})
    IN CASE decision = "kill_switch" ->
              [same EXCEPT !.jobs = cancelled("kill_switch"),
                           !.alerts = AppendAlert(voice_alerts, "VOICE_KILL_SWITCH_ACTIVE", "warning")]
         [] decision = "cart_or_user_missing" ->
              [same EXCEPT !.jobs = cancelled(decision),
                           !.calls = event("skipped", decision, NoProviderCallId, job.attempt, NoTime)]
         [] decision = "suppressed_user" ->
              [same EXCEPT !.jobs = cancelled(decision),
                           !.calls = event("suppressed", decision, NoProviderCallId, job.attempt, NoTime)]
         [] decision = "missing_phone" ->
              [same EXCEPT !.jobs = cancelled(decision),
                           !.calls = event("skipped", decision, NoProviderCallId, job.attempt, NoTime)]
         [] decision = "quiet_hours" ->
              [same EXCEPT !.jobs = RescheduleJob(voice_jobs_by_id, job_id, job.attempt, quiet_run, ""),
                           !.result = "retried"]
         [] decision \in {"max_calls_per_day_reached", "max_calls_per_user_per_day_reached",
                          "daily_budget_exceeded"} ->
              [same EXCEPT !.jobs = cancelled(decision),
                           !.calls = event("skipped", decision, NoProviderCallId, job.attempt, NoTime),
                           !.alerts = AppendAlert(voice_alerts, "VOICE_GUARDRAIL_TRIGGERED", "warning")]
         [] decision = "provider_not_configured" ->
              [same EXCEPT !.jobs = cancelled(decision),
                           !.calls = event("skipped", decision, NoProviderCallId, job.attempt, NoTime),
                           !.alerts = AppendAlert(voice_alerts, "VOICE_PROVIDER_NOT_CONFIGURED", "critical")]
         [] decision = "dispatch" /\ response # "raise" ->
              [same EXCEPT !.jobs = CompleteJob(voice_jobs_by_id, job_id, "completed", ""),
                           !.calls = event("initiated", "", provider_call_id, attempt_number, NoTime),
                           !.idempotency = SetIdempotency(voice_call_idempotency, job.recoveryKey,
                                              IF provider_call_id # NoProviderCallId
                                              THEN provider_call_id ELSE job_id),
                           !.provider = called(TRUE),
                           !.result = "completed"]
         [] decision = "dispatch" /\ response = "raise" /\ attempt_number >= max_attempts ->
              [same EXCEPT !.jobs = CompleteJob(voice_jobs_by_id, job_id, "dead_letter", "provider failure"),
                           !.calls = event("failed", "provider failure", NoProviderCallId, attempt_number, NoTime),
                           !.alerts = AppendAlert(voice_alerts, "VOICE_DEAD_LETTER", "critical"),
                           !.provider = called(FALSE),
                           !.result = "deadLetter"]
         [] OTHER ->
              [same EXCEPT !.jobs = RescheduleJob(voice_jobs_by_id, job_id, attempt_number, next_run, "provider failure"),
                           !.calls = event("retrying", "provider failure", NoProviderCallId, attempt_number, next_run),
                           !.provider = called(FALSE),
                           !.result = "retried"]

\* _process_due_jobs, one turn of its loop: the next due job is processed
TickProcessJob(t, response) ==
    /\ UNCHANGED orchVars
    /\ pc[t] = "jobs"
    /\ tick_jobs[t] # <<>>
    /\ LET row == Head(tick_jobs[t])
           after == ProcessSingleJob(row.id, row.job, voice_settings, tick_now[t], now,
                                     response, BagCardinality(provider_calls) + 1)
       IN /\ voice_jobs_by_id' = after.jobs
          /\ voice_calls_by_id' = after.calls
          /\ voice_alerts' = after.alerts
          /\ voice_call_idempotency' = after.idempotency
          /\ provider_calls' = after.provider
    /\ tick_jobs' = [tick_jobs EXCEPT ![t] = Tail(@)]
    /\ UNCHANGED <<manual_ticks, now, superu_enabled, followup_log, callback_result, voice_settings,
                   users_by_id, carts_by_id, voice_suppressions_by_user, notifications,
                   support_tickets, pc, tick_now, tick_keys, tick_calls, tick_call>>

\* ------------------------------------------------------- provider statuses
\* What a provider log row or a webhook payload carries: a raw status and a
\* raw outcome ("" when the row has none).
ProviderRows ==
    { [status |-> "ringing", outcome |-> ""],
      [status |-> "completed", outcome |-> "converted"],
      [status |-> "completed", outcome |-> "opt-out"],
      [status |-> "completed", outcome |-> "needs help"],
      [status |-> "no-answer", outcome |-> ""] }

\* str.strip().lower().replace("-", "_").replace(" ", "_") on the values above
Underscored(raw) ==
    CASE raw = "opt-out" -> "opt_out"
      [] raw = "needs help" -> "needs_help"
      [] raw = "no-answer" -> "no_answer"
      [] OTHER -> raw

\* _normalize_provider_status
NormalizeProviderStatus(payload) ==
    LET value == Underscored(payload.status)
    IN IF value \in {"queued", "dialing", "ringing"} THEN "ringing"
       ELSE IF value \in {"connected", "answered", "in_progress", "active"} THEN "in_progress"
       ELSE IF value \in {"completed", "success", "ended", "done"} THEN "completed"
       ELSE IF value \in {"failed", "error", "busy", "cancelled", "canceled", "no_answer",
                          "voicemail", "dropped", "timeout"} THEN "failed"
       ELSE "in_progress"

\* _extract_outcome
ExtractOutcome(payload) ==
    IF payload.outcome # "" THEN Underscored(payload.outcome)
    ELSE NormalizeProviderStatus(payload)

\* ------------------------------------------------------ call state updates
\* _update_call_progress
UpdateCallProgress(calls, call_id, status) ==
    IF call_id \notin DOMAIN calls THEN calls
    ELSE [calls EXCEPT ![call_id].status = status]

\* A fault to detect: the outcome written where the status belongs
WriteCallTerminalOutcomeAsStatus(calls, call_id, status, outcome) ==
    IF call_id \notin DOMAIN calls THEN calls
    ELSE [calls EXCEPT ![call_id].status = outcome, ![call_id].outcome = outcome]

\* _update_call_terminal, up to the write of the new status: the calls after it
WriteCallTerminal(calls, call_id, status, outcome) ==
    IF call_id \notin DOMAIN calls THEN calls
    ELSE [calls EXCEPT ![call_id].status = status, ![call_id].outcome = outcome]

\* _update_call_terminal, the end: followupApplied is set on the stored call
MarkFollowupApplied(calls, call_id) ==
    IF call_id \notin DOMAIN calls THEN calls
    ELSE [calls EXCEPT ![call_id].followupApplied = TRUE]

\* One invocation of _apply_outcome_actions, as the log of invocations keeps it
FollowupRun(call_id, call) ==
    [callId |-> call_id, userId |-> call.userId, status |-> call.status, outcome |-> call.outcome]

Followup(user_id, call_id, disposition) ==
    [type |-> "voice_recovery_followup", userId |-> user_id, callId |-> call_id,
     disposition |-> disposition]

\* The place of a new stamp among the updatedAt of the tickets: iso_now() of
\* a later write is greater than every stamp written before
RECURSIVE LastStamp(_)
LastStamp(tickets) ==
    IF tickets = <<>> THEN 0
    ELSE Max(Last(tickets).updatedAt, LastStamp(SubSeq(tickets, 1, Len(tickets) - 1)))

\* SupportService.create_ticket: the ticket it appends
Ticket(user_id, session_id, tickets) ==
    [userId |-> user_id, sessionId |-> session_id, priority |-> "normal", status |-> "open",
     followups |-> 0, updatedAt |-> LastStamp(tickets) + 1]

\* A fault to detect: a follow-up that leaves an opt-out unrecorded
ApplyOutcomeActionsDropsOptOut(call_id, call, suppressions, tickets, notes) ==
    [suppressions |-> suppressions, tickets |-> tickets, notes |-> notes]

\* _apply_outcome_actions on the copy `call` of call `call_id`: the
\* suppressions, tickets and notifications after it
ApplyOutcomeActions(call_id, call, suppressions, tickets, notes) ==
    LET session_id == IF call.sessionId = "" THEN "voice-session" ELSE call.sessionId
        same == [suppressions |-> suppressions, tickets |-> tickets, notes |-> notes]
    IN IF call.userId = "" THEN same
       ELSE IF call.outcome \in {"do_not_call", "opt_out", "dnc"}
       THEN [same EXCEPT !.suppressions = SuppressEntry(suppressions, call.userId, "voice_opt_out")]
       ELSE IF call.outcome \in {"requested_callback", "needs_help", "agent_handoff"}
       THEN [same EXCEPT !.tickets = Append(tickets, Ticket(call.userId, session_id, tickets)),
                         !.notes = Append(notes, Followup(call.userId, call_id, "callback_requested"))]
       ELSE IF call.outcome \in {"converted", "checkout_intent", "interested"}
       THEN [same EXCEPT !.notes = Append(notes, Followup(call.userId, call_id, "conversion_intent"))]
       ELSE IF call.status = "failed"
       THEN [same EXCEPT !.notes = Append(notes, Followup(call.userId, call_id, "call_failed"))]
       ELSE same

\* --------------------------------------------------- process_due_work: poll
RECURSIVE ActiveRows(_, _)
ActiveRows(calls, i) ==
    IF i > Len(calls) THEN <<>>
    ELSE (IF calls[i].status \in {"initiated", "ringing", "in_progress"}
          THEN <<[id |-> i, call |-> calls[i]]>> ELSE <<>>) \o ActiveRows(calls, i + 1)

\* _poll_provider_updates, the selection: copies of the active calls. The
\* filter str(providerCallId).strip() keeps a call without a provider call id
\* as well: str(None) is the text "None".
ActiveCalls(calls, client_enabled) ==
    IF ~client_enabled THEN <<>> ELSE ActiveRows(calls, 1)

TickSelectActive(t) ==
    /\ UNCHANGED orchVars
    /\ pc[t] = "jobs"
    /\ tick_jobs[t] = <<>>
    /\ tick_calls' = [tick_calls EXCEPT ![t] = ActiveCalls(voice_calls_by_id, superu_enabled)]
    /\ pc' = [pc EXCEPT ![t] = "poll"]
    /\ UNCHANGED <<manual_ticks, now, superu_enabled, provider_calls, followup_log, callback_result,
                   storeVars, tick_now, tick_keys, tick_jobs, tick_call>>

PollAnswers == ProviderRows \cup {[status |-> "raise", outcome |-> ""], [status |-> "none", outcome |-> ""]}


\* _poll_provider_updates, one turn of its loop: fetch_call_logs raises, returns no
\* row, or returns a row. A terminal row is written by _update_call_terminal,
\* which then holds its copy of the call for the follow-up.
TickPollCall(t, answer) ==
    /\ UNCHANGED orchVars
    /\ pc[t] = "poll"
    /\ tick_calls[t] # <<>>
    /\ LET call_id == Head(tick_calls[t]).id
           status == NormalizeProviderStatus(answer)
           outcome == ExtractOutcome(answer)
           written == WriteCallTerminal(voice_calls_by_id, call_id, status, outcome)
       IN IF answer.status = "raise"
          THEN /\ voice_alerts' = AppendAlert(voice_alerts, "VOICE_POLL_FAILED", "warning")
               /\ UNCHANGED <<voice_calls_by_id, pc, tick_call>>
          ELSE IF answer.status = "none"
          THEN UNCHANGED <<voice_alerts, voice_calls_by_id, pc, tick_call>>
          ELSE IF status \in {"completed", "failed"}
          THEN /\ voice_calls_by_id' = written
               /\ IF written[call_id].followupApplied
                  THEN UNCHANGED <<pc, tick_call>>
                  ELSE /\ pc' = [pc EXCEPT ![t] = "followup"]
                       /\ tick_call' = [tick_call EXCEPT ![t] = [id |-> call_id, call |-> written[call_id]]]
               /\ UNCHANGED voice_alerts
          ELSE /\ voice_calls_by_id' = UpdateCallProgress(voice_calls_by_id, call_id, status)
               /\ UNCHANGED <<voice_alerts, pc, tick_call>>
    /\ tick_calls' = [tick_calls EXCEPT ![t] = Tail(@)]
    /\ UNCHANGED <<manual_ticks, now, superu_enabled, provider_calls, followup_log, callback_result,
                   voice_settings, users_by_id, carts_by_id, voice_jobs_by_id,
                   voice_suppressions_by_user, voice_call_idempotency, notifications,
                   support_tickets, tick_now, tick_keys, tick_jobs>>

\* _update_call_terminal, after the write: the follow-up of the held copy runs
\* and followupApplied is set on the stored call
TickFollowup(t) ==
    /\ UNCHANGED orchVars
    /\ pc[t] = "followup"
    /\ LET held == tick_call[t]
           after == ApplyOutcomeActions(held.id, held.call, voice_suppressions_by_user,
                                        support_tickets, notifications)
       IN /\ voice_suppressions_by_user' = after.suppressions
          /\ support_tickets' = after.tickets
          /\ notifications' = after.notes
          /\ followup_log' = followup_log (+) SetToBag({FollowupRun(held.id, held.call)})
          /\ voice_calls_by_id' = MarkFollowupApplied(voice_calls_by_id, held.id)
    /\ tick_call' = [tick_call EXCEPT ![t] = NoPendingCall]
    /\ pc' = [pc EXCEPT ![t] = "poll"]
    /\ UNCHANGED <<manual_ticks, now, superu_enabled, provider_calls, callback_result, voice_settings,
                   users_by_id, carts_by_id, voice_jobs_by_id, voice_call_idempotency,
                   voice_alerts, tick_now, tick_keys, tick_jobs, tick_calls>>

\* ------------------------------------------------- process_due_work: alerts
\* _evaluate_alerts
EvaluateAlerts(alerts, jobs, calls, settings, tnow) ==
    LET pending == Cardinality({i \in 1..Len(jobs) : jobs[i].status \in {"queued", "retrying"}})
        terminal == {i \in CallsToday(calls, tnow) :
                        calls[i].status \in {"completed", "failed", "suppressed", "skipped"}}
        failed == {i \in terminal : calls[i].status = "failed"}
        backlog == IF pending > settings.alertBacklogThreshold
                   THEN AppendAlert(alerts, "VOICE_BACKLOG_HIGH", "warning") ELSE alerts
    IN IF /\ terminal # {}
          /\ Cardinality(failed) * 100 > settings.alertFailureRatioPercent * Cardinality(terminal)
       THEN AppendAlert(backlog, "VOICE_FAILURE_RATIO_HIGH", "critical")
       ELSE backlog

TickEvaluateAlerts(t) ==
    /\ UNCHANGED orchVars
    /\ pc[t] = "poll"
    /\ tick_calls[t] = <<>>
    /\ voice_alerts' = EvaluateAlerts(voice_alerts, voice_jobs_by_id, voice_calls_by_id,
                                      voice_settings, tick_now[t])
    /\ pc' = [pc EXCEPT ![t] = "idle"]
    /\ UNCHANGED <<manual_ticks, now, superu_enabled, provider_calls, followup_log, callback_result,
                   voice_settings, users_by_id, carts_by_id, voice_jobs_by_id,
                   voice_calls_by_id, voice_suppressions_by_user, voice_call_idempotency,
                   notifications, support_tickets, tick_now, tick_keys, tick_jobs, tick_calls, tick_call>>

\* ------------------------------------------------- ingest_provider_callback
\* The payloads the provider posts: an event id, the provider's call id
\* (NoProviderCallId when the payload carries none), a raw status and outcome.
CallbackEventIds == {"evt_001", "evt_002"}
CallbackCallIds == {NoProviderCallId, 1}
CallbackRows ==
    { [status |-> "ringing", outcome |-> ""],
      [status |-> "completed", outcome |-> "converted"],
      [status |-> "completed", outcome |-> "opt-out"] }
CallbackPayloads ==
    { [event_id |-> e, call_id |-> c, status |-> r.status, outcome |-> r.outcome] :
        e \in CallbackEventIds, c \in CallbackCallIds, r \in CallbackRows }

EventRingSize == 200

\* The key of a provider event, the same on every redelivery
EventKey(payload) == payload.event_id

\* The call that carries the provider's call id, 0 when there is none
FindCallByProviderId(calls, provider_call_id) ==
    LET hits == {i \in 1..Len(calls) : calls[i].providerCallId = provider_call_id}
    IN IF hits = {} THEN 0 ELSE CHOOSE i \in hits : \A k \in hits : i <= k

\* A fault to detect: the key of a handled event is not kept
AppendEventKeyForgets(calls, call_id, key) == calls

AppendEventKey(calls, call_id, key) ==
    LET grown == Append(calls[call_id].providerEventKeys, key)
    IN [calls EXCEPT ![call_id].providerEventKeys =
          IF Len(grown) > EventRingSize
          THEN SubSeq(grown, Len(grown) - EventRingSize + 1, Len(grown)) ELSE grown]

\* ingest_provider_callback: the answer, and the calls, suppressions, tickets,
\* notifications and follow-up invocations after the callback
IngestProviderCallback(payload, calls, suppressions, tickets, notes, log) ==
    LET call_id == FindCallByProviderId(calls, payload.call_id)
        status == NormalizeProviderStatus(payload)
        outcome == ExtractOutcome(payload)
        written == WriteCallTerminal(calls, call_id, status, outcome)
        after == ApplyOutcomeActions(call_id, written[call_id], suppressions, tickets, notes)
        same == [result |-> NoCallback, calls |-> calls, suppressions |-> suppressions,
                 tickets |-> tickets, notes |-> notes, log |-> log]
        applied == [NoCallback EXCEPT !.accepted = TRUE, !.matched = TRUE]
    IN IF payload.call_id = NoProviderCallId
       THEN [same EXCEPT !.result = [NoCallback EXCEPT !.reason = "missing_provider_call_id"]]
       ELSE IF call_id = 0
       THEN [same EXCEPT !.result = [NoCallback EXCEPT !.accepted = TRUE,
                                                       !.reason = "call_not_found"]]
       ELSE IF \E i \in 1..Len(calls[call_id].providerEventKeys) :
                  calls[call_id].providerEventKeys[i] = EventKey(payload)
       THEN [same EXCEPT !.result = [applied EXCEPT !.idempotent = TRUE]]
       ELSE IF status \in {"completed", "failed"} /\ ~written[call_id].followupApplied
       THEN [result |-> applied,
             calls |-> AppendEventKey(MarkFollowupApplied(written, call_id), call_id,
                                      EventKey(payload)),
             suppressions |-> after.suppressions,
             tickets |-> after.tickets,
             notes |-> after.notes,
             log |-> log (+) SetToBag({FollowupRun(call_id, written[call_id])})]
       ELSE [same EXCEPT !.result = applied,
                         !.calls = AppendEventKey(
                                      IF status \in {"completed", "failed"} THEN written
                                      ELSE UpdateCallProgress(calls, call_id, status),
                                      call_id, EventKey(payload))]

\* The webhook route hands a verified payload to ingest_provider_callback
Callback(payload) ==
    /\ UNCHANGED orchVars
    /\ LET after == IngestProviderCallback(payload, voice_calls_by_id,
                                           voice_suppressions_by_user, support_tickets,
                                           notifications, followup_log)
       IN /\ callback_result' = after.result
          /\ voice_calls_by_id' = after.calls
          /\ voice_suppressions_by_user' = after.suppressions
          /\ support_tickets' = after.tickets
          /\ notifications' = after.notes
          /\ followup_log' = after.log
    /\ UNCHANGED <<manual_ticks, now, superu_enabled, provider_calls, voice_settings,
                   users_by_id, carts_by_id, voice_jobs_by_id, voice_call_idempotency,
                   voice_alerts, tickVars>>

\* ------------------------------------------------------------ the program
\* One step of process_due_work run by ticker t, the provider answering a
\* dispatch with one of `responses` and a poll with one of `answers`
Tick(t, responses, answers) ==
    \/ TickStart(t)
    \/ TickEnqueue(t)
    \/ TickSelectDue(t)
    \/ \E response \in responses : TickProcessJob(t, response)
    \/ TickSelectActive(t)
    \/ \E answer \in answers : TickPollCall(t, answer)
    \/ TickFollowup(t)
    \/ TickEvaluateAlerts(t)

\* The admin routes of the voice settings and of the suppression list; the
\* admin suppresses the users of AdminUsers by hand
AdminUsers == {"u1"}
AdminOps ==
    \/ \E updates \in SettingsUpdates : UpdateSettings(updates)
    \/ \E u \in AdminUsers : SuppressUser(u, "")
    \/ \E u \in AdminUsers : UnsuppressUser(u)

OptOutRow == [status |-> "completed", outcome |-> "opt-out"]
ConvertedRow == [status |-> "completed", outcome |-> "converted"]

\* The scheduler loop of main.py, the shoppers and the admin
Next ==
    \/ Tick("scheduler", {"call_id", "raise"}, {OptOutRow})
    \/ Advance
    \/ \E c \in Carts, count \in {0, 2} : CartUpdate(c, count)
    \/ AdminOps

Spec == Init /\ [][Next]_vars

\* The scheduler loop, the provider's call logs and the provider's webhook
NextCallback ==
    \/ Tick("scheduler", {"call_id", "no_call_id"}, PollAnswers)
    \/ Advance
    \/ \E payload \in CallbackPayloads : Callback(payload)
    \/ \E u \in AdminUsers : SuppressUser(u, "")
    \/ \E u \in Users : UnsuppressUser(u)

SpecCallback == Init /\ [][NextCallback]_vars

\* The scheduler loop and the admin route run_voice_recovery_now, which runs
\* process_due_work on a worker thread of its own
NextConc ==
    \/ \E t \in Tickers : Tick(t, {"call_id", "raise"}, {ConvertedRow, OptOutRow})
    \/ Advance

InitConc == Init /\ voice_settings = [BaseSettings EXCEPT !.retryBackoffSeconds = <<60>>]

SpecConc == InitConc /\ [][NextConc]_vars

\* The scheduler loop and the shoppers over a minute more of the clock, with
\* the seeded limits: a job that failed twice waits longer than a younger job
\* that failed once, so that the due jobs of a tick differ in nextRunAt.
AdvanceLate ==
    /\ UNCHANGED orchVars
    /\ pc["scheduler"] = "idle"
    /\ now + SecondsPerMinute <= MaxTime + SecondsPerMinute
    /\ now' = now + SecondsPerMinute
    /\ UNCHANGED <<superu_enabled, provider_calls, followup_log, callback_result, storeVars,
                   tickVars, manual_ticks>>

NextLate ==
    \/ Tick("scheduler", {"call_id", "raise"}, {OptOutRow})
    \/ AdvanceLate
    \/ \E c \in Carts, count \in {0, 2} : CartUpdate(c, count)

InitLate == InitStore(BaseSettings, TRUE) /\ OrchestratorIdle

SpecLate == InitLate /\ [][NextLate]_vars

\* ---------------------------------------------------------- the LLM planner
\* LLMClient: the planner's closed vocabulary
SUPPORTED_TARGET_AGENTS == {"product", "cart", "order", "memory", "support", "orchestrator"}

PlannerAction(target, allowed) == [target |-> target, allowedParams |-> allowed]

SUPPORTED_PLANNER_ACTIONS ==
    [search_products |-> PlannerAction("product", {"query", "category", "brand", "minPrice", "maxPrice", "color"}),
     add_item |-> PlannerAction("cart", {"query", "productId", "variantId", "quantity", "brand", "color", "minPrice", "maxPrice"}),
     add_multiple_items |-> PlannerAction("cart", {"items"}),
     update_item |-> PlannerAction("cart", {"itemId", "productId", "variantId", "query", "quantity"}),
     adjust_item_quantity |-> PlannerAction("cart", {"itemId", "productId", "variantId", "query", "delta"}),
     remove_item |-> PlannerAction("cart", {"itemId", "productId", "variantId", "query", "quantity"}),
     clear_cart |-> PlannerAction("cart", {}),
     get_cart |-> PlannerAction("cart", {}),
     apply_discount |-> PlannerAction("cart", {"code"}),
     checkout_summary |-> PlannerAction("order", {}),
     get_order_status |-> PlannerAction("order", {"orderId"}),
     cancel_order |-> PlannerAction("order", {"orderId", "reason"}),
     request_refund |-> PlannerAction("order", {"orderId", "reason"}),
     change_order_address |-> PlannerAction("order", {"orderId", "shippingAddress"}),
     show_memory |-> PlannerAction("memory", {}),
     save_preference |-> PlannerAction("memory", {"updates"}),
     forget_preference |-> PlannerAction("memory", {"key", "value"}),
     clear_memory |-> PlannerAction("memory", {}),
     create_ticket |-> PlannerAction("support", {"query", "priority", "ticketId"}),
     ticket_status |-> PlannerAction("support", {"ticketId"}),
     close_ticket |-> PlannerAction("support", {"ticketId"}),
     answer_question |-> PlannerAction("support", {"query"})]

MAX_PLAN_ACTIONS == 5
\* confidences are in hundredths
PLAN_CONFIDENCE_FLOOR == 55
MaxValueLength == 300

\* How many rows the planner's "actions" list holds at most, and how many
\* entries the "params" of a row
MaxPlanRows == 2
MaxParams == 1

\* A string of the planner's JSON: its text, and whether white space surrounds it
Raw(text) == [text |-> text, padded |-> FALSE]
Padded(text) == [text |-> text, padded |-> TRUE]
\* str.strip()
Strip(raw) == raw.text

\* A value of the planner's JSON: null, or a string of some length
NoneValue == [kind |-> "none"]
Text(len) == [kind |-> "str", len |-> len]

\* _normalize_planner_value, on these values
NormalizePlannerValue(value) ==
    IF value.kind = "str" THEN Text(Min(value.len, MaxValueLength)) ELSE NoneValue

\* _normalize_confidence: a number is clamped to [0, 1], anything else is 0
NormalizeConfidence(value) ==
    IF value.kind = "number" THEN Max(0, Min(100, value.hundredths)) ELSE 0

\* What the planner may put under "params": something that is no object, or
\* an object of up to MaxParams entries, in the order of the JSON text
ParamKeys == {Raw("query"), Padded("quantity"), Raw("unsupported")}
ParamEntries == {[key |-> k, value |-> v] : k \in ParamKeys, v \in {NoneValue, Text(5), Text(400)}}

RECURSIVE SeqsUpTo(_, _)
SeqsUpTo(set, n) ==
    IF n = 0 THEN {<<>>}
    ELSE LET shorter == SeqsUpTo(set, n - 1)
         IN shorter \cup {Append(q, e) : q \in shorter, e \in set}

NotAnObject == [kind |-> "other"]
ParamObjects ==
    {NotAnObject} \cup {[kind |-> "dict", entries |-> q] : q \in SeqsUpTo(ParamEntries, MaxParams)}

\* The rows the planner may put in "actions": something that is no object,
\* or an object with a name, a target agent and params
PlannerRows ==
    {NotAnObject} \cup
    {[kind |-> "dict", name |-> n, targetAgent |-> t, params |-> p] :
        n \in {Raw("add_item"), Padded("clear_cart"), Raw("drop_database"), Raw("")},
        t \in {Raw(""), Raw("admin"), Padded("order")},
        p \in ParamObjects}

\* dict[key] = value on a dict kept as a set of entries with distinct keys
DictPut(dict, key, value) ==
    {e \in dict : e.key # key} \cup {[key |-> key, value |-> value]}

\* A fault to detect: every key of the planner's params is kept
RECURSIVE SafeParamsUnfiltered(_, _)
SafeParamsUnfiltered(entries, allowed) ==
    IF entries = <<>> THEN {}
    ELSE LET rest == SafeParamsUnfiltered(SubSeq(entries, 1, Len(entries) - 1), allowed)
             entry == Last(entries)
         IN DictPut(rest, Strip(entry.key), NormalizePlannerValue(entry.value))

\* _parse_planned_action, its loop over raw_params.items()
RECURSIVE SafeParams(_, _)
SafeParams(entries, allowed) ==
    IF entries = <<>> THEN {}
    ELSE LET rest == SafeParams(SubSeq(entries, 1, Len(entries) - 1), allowed)
             entry == Last(entries)
             normalized_key == Strip(entry.key)
             normalized_value == NormalizePlannerValue(entry.value)
         IN IF normalized_key \notin allowed THEN rest
            ELSE IF normalized_value = NoneValue THEN rest
            ELSE DictPut(rest, normalized_key, normalized_value)

\* _parse_planned_action
NoAction == [is_action |-> FALSE]
ParsePlannedAction(row) ==
    IF row.kind # "dict" THEN NoAction
    ELSE LET name == Strip(row.name)
         IN IF name = "" \/ name \notin DOMAIN SUPPORTED_PLANNER_ACTIONS THEN NoAction
            ELSE LET spec == SUPPORTED_PLANNER_ACTIONS[name]
                     target_agent_raw == Strip(row.targetAgent)
                     given == IF target_agent_raw # "" THEN target_agent_raw ELSE spec.target
                     target_agent == IF given \notin SUPPORTED_TARGET_AGENTS THEN spec.target ELSE given
                     raw_params == IF row.params.kind = "dict" THEN row.params.entries ELSE <<>>
                 IN [is_action |-> TRUE, name |-> name, target_agent |-> target_agent,
                     params |-> SafeParams(raw_params, spec.allowedParams)]

\* What becomes of one call of the planner model: plan_actions is switched
\* off, the call fails, or it returns text that is or is not a JSON object
LlmFailures == {"timeout", "http_error", "circuit_open", "exception", "invalid_json"}
LlmOutcomes == {"disabled", "json_object"} \cup LlmFailures

\* What the planner's JSON may carry as "confidence"
RawConfidences ==
    {[kind |-> "number", hundredths |-> h] : h \in {20, 90, 250}} \cup {[kind |-> "other"]}

NoPlan == [is_plan |-> FALSE]

PlannerCall(outcome, confidence, needs_clarification) ==
    [pc |-> "call", outcome |-> outcome, confidence |-> confidence,
     needs_clarification |-> needs_clarification, seen |-> 0, actions |-> <<>>,
     valid |-> <<>>, dropped |-> FALSE, plan |-> NoPlan]

PlannerCalls ==
    {PlannerCall(o, [kind |-> "other"], FALSE) : o \in LlmOutcomes \ {"json_object"}}
      \cup {PlannerCall("json_object", c, n) : c \in RawConfidences, n \in BOOLEAN}

\* plan_actions up to _try_parse_json: no plan unless a JSON object came back
CallPlanner ==
    /\ planner.pc = "call"
    /\ planner' = IF planner.outcome = "json_object"
                  THEN [planner EXCEPT !.pc = "rows",
                                       !.confidence = NormalizeConfidence(@)]
                  ELSE [planner EXCEPT !.pc = "done", !.plan = NoPlan]
    /\ UNCHANGED <<voiceVars, request, run, serviceVars>>

\* Whether the parse of this row leaves out a key that is not on the allow-list
DropsKey(row) ==
    /\ ParsePlannedAction(row) # NoAction
    /\ row.params.kind = "dict"
    /\ \E k \in 1..Len(row.params.entries) :
          Strip(row.params.entries[k].key)
              \notin SUPPORTED_PLANNER_ACTIONS[Strip(row.name)].allowedParams

\* plan_actions, one round of its loop over raw_actions[:MAX_PLAN_ACTIONS];
\* a row after the first MAX_PLAN_ACTIONS is not looked at
\* The next row of the "actions" list of an answer of at most max_rows rows:
\* the loop looks at the rows of raw_actions[:MAX_PLAN_ACTIONS] only. valid
\* keeps what every row of the answer parses to, looked at or not.
ParseRowUpTo(row, max_rows) ==
    /\ planner.pc = "rows"
    /\ planner.seen < max_rows
    /\ LET parsed == ParsePlannedAction(row)
           looked_at == planner.seen < MAX_PLAN_ACTIONS
       IN planner' = [planner EXCEPT
                         !.seen = @ + 1,
                         !.actions = IF looked_at /\ parsed # NoAction THEN Append(@, parsed) ELSE @,
                         !.valid = IF parsed # NoAction THEN Append(@, parsed) ELSE @,
                         !.dropped = @ \/ (looked_at /\ DropsKey(row))]
    /\ UNCHANGED <<voiceVars, request, run, serviceVars>>

ParseRow(row) == ParseRowUpTo(row, MaxPlanRows)

PlanOfWithoutFloor(actions, confidence, needs_clarification) ==
    IF needs_clarification
    THEN [is_plan |-> TRUE, actions |-> <<>>, confidence |-> confidence, needs_clarification |-> TRUE]
    ELSE IF actions = <<>> THEN NoPlan
    ELSE [is_plan |-> TRUE, actions |-> actions, confidence |-> confidence,
          needs_clarification |-> FALSE]

\* plan_actions, after the loop
PlanOf(actions, confidence, needs_clarification) ==
    IF needs_clarification
    THEN [is_plan |-> TRUE, actions |-> <<>>, confidence |-> confidence, needs_clarification |-> TRUE]
    ELSE IF confidence < PLAN_CONFIDENCE_FLOOR THEN NoPlan
    ELSE IF actions = <<>> THEN NoPlan
    ELSE [is_plan |-> TRUE, actions |-> actions, confidence |-> confidence,
          needs_clarification |-> FALSE]

FinishPlan ==
    /\ planner.pc = "rows"
    /\ planner' = [planner EXCEPT
                      !.pc = "done",
                      !.plan = PlanOf(planner.actions, planner.confidence,
                                      planner.needs_clarification)]
    /\ UNCHANGED <<voiceVars, request, run, serviceVars>>

InitPlanner ==
    /\ InitStore(BaseSettings, TRUE)
    /\ planner \in PlannerCalls
    /\ request = Idle
    /\ run = Idle
    /\ ServicesIdle

NextPlanner ==
    \/ CallPlanner
    \/ \E row \in PlannerRows : ParseRow(row)
    \/ FinishPlan

SpecPlanner == InitPlanner /\ [][NextPlanner]_vars

\* Answers of the planner model with more rows than MAX_PLAN_ACTIONS, made of
\* two rows the allow-list knows and one it does not
MaxLongRows == 6
NoParams == [kind |-> "dict", entries |-> <<>>]
LongRow(name) == [kind |-> "dict", name |-> Raw(name), targetAgent |-> Raw(""), params |-> NoParams]
LongRows == {LongRow("get_cart"), LongRow("clear_cart"), LongRow("drop_database")}

ParseLongRow(row) == ParseRowUpTo(row, MaxLongRows)

InitLongPlan ==
    /\ InitStore(BaseSettings, TRUE)
    /\ planner \in {PlannerCall("json_object", c, FALSE) : c \in RawConfidences}
    /\ request = Idle
    /\ run = Idle
    /\ ServicesIdle

NextLongPlan ==
    \/ CallPlanner
    \/ \E row \in LongRows : ParseLongRow(row)
    \/ FinishPlan

SpecLongPlan == InitLongPlan /\ [][NextLongPlan]_vars

\* ------------------------------------------- Orchestrator.process_message
\* One message of one session goes through process_message. The settings the
\* LLM client carries, the canary bucket of the session, the intent the rules
\* find and what the planner model would answer are the inputs of a request.
DecisionPolicies == {"planner_first", "classifier_first"}
CanaryPercents == {0, 50, 100}
CanaryBuckets == {10, 90}
PlannerSettings ==
    [llm_decision_policy : DecisionPolicies, planner_feature_enabled : BOOLEAN,
     llm_planner_enabled : BOOLEAN, planner_canary_percent : CanaryPercents]

PlannerEnabledWithoutCanary(settings, bucket) ==
    IF ~settings.planner_feature_enabled THEN FALSE
    ELSE settings.llm_planner_enabled

\* _planner_enabled_for_request; bucket is int(sha256(seed)[:8], 16) % 100
PlannerEnabledForRequest(settings, bucket) ==
    IF ~settings.planner_feature_enabled THEN FALSE
    ELSE IF ~settings.llm_planner_enabled THEN FALSE
    ELSE IF settings.planner_canary_percent <= 0 THEN FALSE
    ELSE IF settings.planner_canary_percent >= 100 THEN TRUE
    ELSE bucket < settings.planner_canary_percent

\* ActionExtractor.extract, for the intents the requests carry
AgentAction(name, target_agent) == [name |-> name, target_agent |-> target_agent]
RuleIntents == {"view_cart", "multi_status", "search_and_add_to_cart"}
Extract(intent) ==
    CASE intent = "multi_status" ->
           <<AgentAction("get_cart", "cart"), AgentAction("get_order_status", "order")>>
      [] intent = "search_and_add_to_cart" ->
           <<AgentAction("search_products", "product"), AgentAction("add_item", "cart")>>
      [] intent = "view_cart" -> <<AgentAction("get_cart", "")>>
      [] OTHER -> <<>>

\* _max_actions_per_request with the configured default, and _apply_action_limit
ConfiguredMaxActions == 5
MaxActionsPerRequest == Max(1, Min(10, ConfiguredMaxActions))
ApplyActionLimit(actions, limit) ==
    IF Len(actions) <= limit THEN actions ELSE SubSeq(actions, 1, limit)

\* _build_llm_action_plan: plan_actions' result, None when it has none or raises
BuildLlmActionPlan(llm_outcome, llm_plan) ==
    IF llm_outcome = "json_object" THEN llm_plan ELSE NoPlan

\* The plans a JSON answer of the planner model parses to
PlannedClearCart == [is_action |-> TRUE, name |-> "clear_cart", target_agent |-> "cart", params |-> {}]
LlmPlans == {PlanOf(<<>>, 90, TRUE), PlanOf(<<PlannedClearCart>>, 90, FALSE)}

\* The keyword arguments process_message passes to classify, and the
\* parameters IntentClassifier.classify declares. A Python call raises
\* TypeError when a keyword argument names no parameter of the callee.
ClassifyArguments == {"message", "context", "allow_llm"}
ClassifyParameters == {"message", "context"}
BindsKeywords(arguments, parameters) == arguments \subseteq parameters

NoResponse == [kind |-> "none"]
Request(settings, bucket, intent, llm_outcome, llm_plan) ==
    [pc |-> "received", settings |-> settings, bucket |-> bucket, intent |-> intent,
     llm_outcome |-> llm_outcome, llm_plan |-> llm_plan, raised |-> "none",
     classified_by |-> "none", classifier_llm_consulted |-> FALSE,
     planner_enabled |-> FALSE, response |-> NoResponse]
Requests ==
    {Request(s, b, i, o, NoPlan) :
        s \in PlannerSettings, b \in CanaryBuckets, i \in RuleIntents,
        o \in LlmOutcomes \ {"json_object"}}
      \cup {Request(s, b, i, "json_object", p) :
              s \in PlannerSettings, b \in CanaryBuckets, i \in RuleIntents, p \in LlmPlans}

\* IntentClassifier.classify once it is entered: the rules' intent, then
\* _classify_with_llm, which asks the client whenever the classifier has one
\* (the container gives it one); the LLM's intent wins when its confidence is
\* at least max(0.7, the rules' confidence)
RuleConfidence == 90
LlmIntentConfidence == 95
Classify(llm_outcome) ==
    [classifier_llm_consulted |-> TRUE,
     classified_by |-> IF llm_outcome = "json_object"
                          /\ LlmIntentConfidence >= Max(70, RuleConfidence)
                       THEN "llm" ELSE "rules"]

\* process_message after the classification: the planner attempt and the
\* choice between the clarification, the plan's actions and the rules' actions
Respond(req, decision_policy, planner_enabled_for_request) ==
    LET actions == Extract(req.intent)
        should_try_planner ==
            planner_enabled_for_request
              /\ (decision_policy = "planner_first" \/ Len(actions) > 1)
        planner_plan == IF should_try_planner
                        THEN BuildLlmActionPlan(req.llm_outcome, req.llm_plan)
                        ELSE NoPlan
    IN IF planner_plan # NoPlan /\ planner_plan.needs_clarification
       THEN [kind |-> "clarification", planner_attempted |-> should_try_planner,
             planner_used |-> TRUE, actions |-> <<>>, success |-> FALSE,
             message |-> "clarification_question", code |-> "CLARIFICATION_REQUIRED",
             agent |-> "orchestrator"]
       ELSE IF planner_plan # NoPlan /\ planner_plan.actions # <<>>
       THEN [kind |-> "agents", planner_attempted |-> should_try_planner,
             planner_used |-> TRUE,
             actions |-> ApplyActionLimit(
                 [k \in 1..Len(planner_plan.actions) |->
                     AgentAction(planner_plan.actions[k].name,
                                 planner_plan.actions[k].target_agent)],
                 MaxActionsPerRequest)]
       ELSE [kind |-> "agents", planner_attempted |-> should_try_planner,
             planner_used |-> FALSE,
             actions |-> ApplyActionLimit(actions, MaxActionsPerRequest)]

\* process_message: the call of classify comes before everything that depends
\* on the intent, and an exception it raises leaves process_message
ProcessMessage ==
    /\ request.pc = "received"
    /\ LET decision_policy == request.settings.llm_decision_policy
           planner_enabled_for_request ==
               PlannerEnabledForRequest(request.settings, request.bucket)
       IN request' =
            IF ~BindsKeywords(ClassifyArguments, ClassifyParameters)
            THEN [request EXCEPT !.pc = "done", !.raised = "TypeError",
                                    !.planner_enabled = planner_enabled_for_request]
            ELSE [request EXCEPT
                     !.pc = "done",
                     !.planner_enabled = planner_enabled_for_request,
                     !.classified_by = Classify(request.llm_outcome).classified_by,
                     !.classifier_llm_consulted =
                         Classify(request.llm_outcome).classifier_llm_consulted,
                     !.response = Respond(request, decision_policy,
                                          planner_enabled_for_request)]
    /\ UNCHANGED <<voiceVars, planner, run, serviceVars>>

InitMessage ==
    /\ InitStore(BaseSettings, TRUE)
    /\ planner = Idle
    /\ request \in Requests
    /\ run = Idle
    /\ ServicesIdle

NextMessage == ProcessMessage

SpecMessage == InitMessage /\ [][NextMessage]_vars

\* ---------------------- _execute_planned_actions and _execute_multi_action
\* One run of an executor over a list of actions. Each agent.execute is one
\* step; what the agent answers is drawn from what its code can return. The
\* data and the message of a result carry the index of the action they
\* answer, so that the aggregated response shows whose results it holds.
MaxRunActions == 2

\* _planner_execution_mode
RawExecutionModes == {"atomic", "strict", "partial", "best_effort"}
PlannerExecutionMode(raw) ==
    IF raw \in {"strict", "atomic"} THEN "atomic"
    ELSE IF raw = "partial" THEN raw
    ELSE "partial"

\* AgentExecutionResult of an agent for one action: get_cart always succeeds;
\* the other actions succeed, fail with no code, or ask for a clarification
AgentResult(success, code) == [success |-> success, code |-> code]
AgentResults(action) ==
    IF action.name = "get_cart" THEN {AgentResult(TRUE, "")}
    ELSE {AgentResult(TRUE, ""), AgentResult(FALSE, ""),
          AgentResult(FALSE, "CLARIFICATION_REQUIRED")}

\* The actions a plan is made of here, and the lists the executors are given:
\* a plan holds at least one action, the rules give the pair of multi_status
\* or, for an intent without actions, nothing
RunActions ==
    {AgentAction("get_cart", "cart"), AgentAction("add_item", "cart"),
     AgentAction("get_order_status", "order")}
PlannedLists == UNION {[1..n -> RunActions] : n \in 1..MaxRunActions}
MultiLists == {<<>>, Extract("multi_status")}

\* combined_data[agent_name] after one more result: the first result of an
\* agent is stored as it is, later ones make a list (a sequence of length one
\* stands for the bare value)
CombineAppend(combined_data, agent_name, data) ==
    [k \in DOMAIN combined_data \cup {agent_name} |->
        IF k # agent_name THEN combined_data[k]
        ELSE IF agent_name \in DOMAIN combined_data
             THEN Append(combined_data[agent_name], data)
             ELSE <<data>>]

\* combined_data[agent_name] = result.data
CombinePut(combined_data, agent_name, data) ==
    [k \in DOMAIN combined_data \cup {agent_name} |->
        IF k = agent_name THEN <<data>> ELSE combined_data[k]]

ResultData(index, result) == [of |-> index, code |-> result.code]

\* The step record of an executed action
StepOf(index, action, result) ==
    [index |-> index, action |-> action.name, success |-> result.success,
     code |-> IF result.success THEN ""
              ELSE IF result.code # "" THEN result.code ELSE "ACTION_FAILED"]

\* The step records of the actions after position index
SkippedStepsAsFailed(actions, index) ==
    [k \in 1..(Len(actions) - index) |->
        [index |-> index + k, action |-> actions[index + k].name, success |-> FALSE,
         code |-> "ACTION_FAILED"]]

SkippedSteps(actions, index) ==
    [k \in 1..(Len(actions) - index) |->
        [index |-> index + k, action |-> actions[index + k].name, success |-> FALSE,
         code |-> "SKIPPED_ATOMIC_MODE"]]

\* Whether the loop over the plan ends after this result
StopsAfterAnyFailure(atomic, result) == ~result.success

StopsAfter(atomic, result) ==
    atomic /\ ~result.success

OverallSuccessAll(atomic, any_success, all_success) == all_success

OverallSuccess(atomic, any_success, all_success) ==
    IF atomic THEN all_success ELSE any_success

NoResult == [is_result |-> FALSE]
EmptyDict == [k \in {} |-> <<>>]
Run(kind, raw_mode, actions) ==
    [pc |-> "called", kind |-> kind, mode |-> PlannerExecutionMode(raw_mode),
     actions |-> actions, index |-> 1, submitted |-> {}, executed |-> <<>>,
     pairs |-> EmptyDict, steps |-> <<>>, combined_data |-> EmptyDict,
     messages |-> <<>>, any_success |-> FALSE, all_success |-> TRUE,
     stopped |-> FALSE, result |-> NoResult]
Runs ==
    {Run("planned", m, a) : m \in RawExecutionModes, a \in PlannedLists}
      \cup {Run("multi", m, a) : m \in RawExecutionModes, a \in MultiLists}

Executed(index, result) == [index |-> index, success |-> result.success, code |-> result.code]

\* _execute_planned_actions up to the loop
ExecutePlannedActions ==
    /\ run.pc = "called"
    /\ run.kind = "planned"
    /\ run' = [run EXCEPT !.pc = "planned_loop"]
    /\ UNCHANGED <<voiceVars, planner, request, serviceVars>>

\* One pass of the loop of _execute_planned_actions
PlannedStep ==
    /\ run.pc = "planned_loop"
    /\ ~run.stopped
    /\ run.index <= Len(run.actions)
    /\ LET action == run.actions[run.index]
           atomic == run.mode = "atomic"
       IN \E result \in AgentResults(action) :
            run' = [run EXCEPT
                       !.submitted = @ \cup {run.index},
                       !.executed = Append(@, Executed(run.index, result)),
                       !.combined_data = CombineAppend(@, action.target_agent,
                                                       ResultData(run.index, result)),
                       !.messages = Append(@, run.index),
                       !.any_success = @ \/ result.success,
                       !.all_success = @ /\ result.success,
                       !.steps = IF StopsAfter(atomic, result)
                                 THEN Append(@, StepOf(run.index, action, result))
                                        \o SkippedSteps(run.actions, run.index)
                                 ELSE Append(@, StepOf(run.index, action, result)),
                       !.stopped = StopsAfter(atomic, result),
                       !.index = @ + 1]
    /\ UNCHANGED <<voiceVars, planner, request, serviceVars>>

\* _execute_planned_actions after the loop
PlannedReturn ==
    /\ run.pc = "planned_loop"
    /\ run.stopped \/ run.index > Len(run.actions)
    /\ LET atomic == run.mode = "atomic"
           data == IF ~run.all_success /\ ~atomic
                   THEN CombinePut(run.combined_data, "partialFailure", TRUE)
                   ELSE run.combined_data
       IN run' = [run EXCEPT
                     !.pc = "done",
                     !.combined_data = data,
                     !.result = [is_result |-> TRUE,
                                 success |-> OverallSuccess(atomic, run.any_success,
                                                            run.all_success),
                                 messages |-> run.messages, data |-> data]]
    /\ UNCHANGED <<voiceVars, planner, request, serviceVars>>

\* _execute_multi_action up to its loop or its gather: gather makes a task of
\* every run_action before it waits for any
ExecuteMultiAction ==
    /\ run.pc = "called"
    /\ run.kind = "multi"
    /\ run' = IF run.mode = "atomic"
              THEN [run EXCEPT !.pc = "atomic_loop"]
              ELSE [run EXCEPT !.pc = "gather", !.submitted = 1..Len(run.actions)]
    /\ UNCHANGED <<voiceVars, planner, request, serviceVars>>

\* One pass of the loop of the atomic branch of _execute_multi_action
AtomicStep ==
    /\ run.pc = "atomic_loop"
    /\ ~run.stopped
    /\ run.index <= Len(run.actions)
    /\ LET action == run.actions[run.index]
       IN \E result \in AgentResults(action) :
            run' = [run EXCEPT
                       !.submitted = @ \cup {run.index},
                       !.executed = Append(@, Executed(run.index, result)),
                       !.combined_data = CombinePut(@, action.target_agent,
                                                    ResultData(run.index, result)),
                       !.messages = Append(@, run.index),
                       !.all_success = @ /\ result.success,
                       !.stopped = ~result.success,
                       !.index = @ + 1]
    /\ UNCHANGED <<voiceVars, planner, request, serviceVars>>

\* The return of the atomic branch
AtomicReturn ==
    /\ run.pc = "atomic_loop"
    /\ run.stopped \/ run.index > Len(run.actions)
    /\ run' = [run EXCEPT
                  !.pc = "done",
                  !.result = [is_result |-> TRUE, success |-> run.all_success,
                              messages |-> run.messages, data |-> run.combined_data]]
    /\ UNCHANGED <<voiceVars, planner, request, serviceVars>>

\* run_action of one of the gathered tasks, in a thread of its own
RunAction(index) ==
    /\ run.pc = "gather"
    /\ index \in run.submitted
    /\ index \notin DOMAIN run.pairs
    /\ \E result \in AgentResults(run.actions[index]) :
         run' = [run EXCEPT
                    !.executed = Append(@, Executed(index, result)),
                    !.pairs = [k \in DOMAIN @ \cup {index} |->
                                  IF k = index THEN result ELSE @[k]]]
    /\ UNCHANGED <<voiceVars, planner, request, serviceVars>>

\* The loop over the pairs gather returns, in the order of the actions
AggregateLast(actions, pairs, n) ==
    IF n = 0 THEN [combined_data |-> EmptyDict, messages |-> <<>>, success |-> TRUE]
    ELSE [combined_data |-> CombinePut(EmptyDict, actions[n].target_agent,
                                       ResultData(n, pairs[n])),
          messages |-> <<n>>, success |-> pairs[n].success]

RECURSIVE Aggregate(_, _, _)
Aggregate(actions, pairs, n) ==
    IF n = 0 THEN [combined_data |-> EmptyDict, messages |-> <<>>, success |-> TRUE]
    ELSE LET before == Aggregate(actions, pairs, n - 1)
         IN [combined_data |-> CombinePut(before.combined_data, actions[n].target_agent,
                                          ResultData(n, pairs[n])),
             messages |-> Append(before.messages, n),
             success |-> before.success /\ pairs[n].success]

\* The return of the gather branch, once every task has its result
GatherReturn ==
    /\ run.pc = "gather"
    /\ DOMAIN run.pairs = 1..Len(run.actions)
    /\ LET total == Aggregate(run.actions, run.pairs, Len(run.actions))
       IN run' = [run EXCEPT
                     !.pc = "done",
                     !.combined_data = total.combined_data,
                     !.messages = total.messages,
                     !.all_success = total.success,
                     !.result = [is_result |-> TRUE, success |-> total.success,
                                 messages |-> total.messages,
                                 data |-> total.combined_data]]
    /\ UNCHANGED <<voiceVars, planner, request, serviceVars>>

InitRun ==
    /\ InitStore(BaseSettings, TRUE)
    /\ planner = Idle
    /\ request = Idle
    /\ run \in Runs
    /\ ServicesIdle

NextRun ==
    \/ ExecutePlannedActions
    \/ PlannedStep
    \/ PlannedReturn
    \/ ExecuteMultiAction
    \/ AtomicStep
    \/ AtomicReturn
    \/ \E index \in 1..MaxRunActions : RunAction(index)
    \/ GatherReturn

SpecRun == InitRun /\ [][NextRun]_vars

\* ------------------------------------------------------------- properties
\* Ticker t processes the job at the head of its list of due jobs in this step.
ProcessesJob(t) ==
    /\ pc[t] = "jobs"
    /\ tick_jobs[t] # <<>>
    /\ tick_jobs'[t] = Tail(tick_jobs[t])

\* The provider's start_outbound_call is invoked in this step.
Dispatched == provider_calls' # provider_calls

\* The job reaches the suppression check of the executor: the kill switch is
\* off, and the job's user and cart exist and the cart holds items.
ReachesSuppressionCheck(job) ==
    /\ ~voice_settings.killSwitch
    /\ GetUser(job.userId) # NoUser
    /\ GetCart(job.cartId) # NoCart
    /\ GetCart(job.cartId).itemCount > 0

\* A call event with this status is added, in this step, to the call of the
\* job's recoveryKey.
EventRecorded(job, status) ==
    LET before == FindCall(voice_calls_by_id, job.recoveryKey)
        after == FindCall(voice_calls_by_id', job.recoveryKey)
        had == IF before = 0 THEN 0 ELSE Len(voice_calls_by_id[before].attempts)
    IN /\ after # 0
       /\ Len(voice_calls_by_id'[after].attempts) = had + 1
       /\ Last(voice_calls_by_id'[after].attempts).status = status

\* An alert with this code is appended to the alerts in this step.
AlertEmitted(code) ==
    /\ voice_alerts' # <<>>
    /\ Last(voice_alerts').code = code
    /\ Len(voice_alerts') \in {Len(voice_alerts) + 1, AlertRingSize}

\* How often start_outbound_call was invoked for a job, accepted or refused
Dispatches(job_id, accepted) ==
    CopiesIn([jobId |-> job_id, recoveryKey |-> voice_jobs_by_id[job_id].recoveryKey,
              userId |-> voice_jobs_by_id[job_id].userId, accepted |-> accepted],
             provider_calls)

\* C1: every recoveryKey has at most one VoiceJob, whatever its status, and
\* at most one VoiceCall.
C1_OneJobAndCallPerKey ==
    /\ \A i, j \in 1..Len(voice_jobs_by_id) :
          voice_jobs_by_id[i].recoveryKey = voice_jobs_by_id[j].recoveryKey => i = j
    /\ \A i, j \in 1..Len(voice_calls_by_id) :
          voice_calls_by_id[i].recoveryKey = voice_calls_by_id[j].recoveryKey => i = j

\* C2: the provider accepts start_outbound_call at most once per recoveryKey,
\* also when the scheduler's tick and an admin's tick overlap.
C2_AcceptedOncePerKey ==
    \A e \in BagToSet(provider_calls) :
        e.accepted =>
            /\ CopiesIn(e, provider_calls) = 1
            /\ \A f \in BagToSet(provider_calls) :
                  f.accepted /\ f.recoveryKey = e.recoveryKey => f = e

\* C3, as the claim states it: a processed job whose user is suppressed is
\* not dispatched, is cancelled, and gets a call event with status
\* "suppressed".
C3_SuppressedJobRecordsEvent ==
    [][\A t \in Tickers :
          ProcessesJob(t) /\ Head(tick_jobs[t]).job.userId \in SuppressedUsers =>
              /\ ~Dispatched
              /\ voice_jobs_by_id'[Head(tick_jobs[t]).id].status = "cancelled"
              /\ EventRecorded(Head(tick_jobs[t]).job, "suppressed")]_vars

\* C3, amended: a processed job whose user is suppressed is not dispatched and
\* is cancelled; the "suppressed" call event is recorded when the job reaches
\* the suppression check, and under the kill switch no call event is recorded.
C3_SuppressedJobNotDispatched ==
    [][\A t \in Tickers :
          ProcessesJob(t) /\ Head(tick_jobs[t]).job.userId \in SuppressedUsers =>
              LET row == Head(tick_jobs[t])
              IN /\ ~Dispatched
                 /\ voice_jobs_by_id'[row.id].status = "cancelled"
                 /\ ReachesSuppressionCheck(row.job) =>
                       /\ voice_jobs_by_id'[row.id].lastError = "suppressed_user"
                       /\ EventRecorded(row.job, "suppressed")
                 /\ voice_settings.killSwitch =>
                       /\ voice_jobs_by_id'[row.id].lastError = "kill_switch"
                       /\ voice_calls_by_id' = voice_calls_by_id
                 /\ ~voice_settings.killSwitch /\ ~ReachesSuppressionCheck(row.job) =>
                       /\ voice_jobs_by_id'[row.id].lastError = "cart_or_user_missing"
                       /\ EventRecorded(row.job, "skipped")]_vars

\* A job of a suppressed user was cancelled at the suppression check and its
\* call carries the "suppressed" event.
C3_Witness ==
    \E i \in 1..Len(voice_jobs_by_id), k \in 1..Len(voice_calls_by_id) :
        /\ voice_jobs_by_id[i].status = "cancelled"
        /\ voice_jobs_by_id[i].lastError = "suppressed_user"
        /\ voice_jobs_by_id[i].userId \in SuppressedUsers
        /\ voice_calls_by_id[k].recoveryKey = voice_jobs_by_id[i].recoveryKey
        /\ voice_calls_by_id[k].status = "suppressed"
        /\ provider_calls = EmptyBag

\* C4: while the kill switch is on, a due job that is processed is cancelled,
\* the provider is not called, and VOICE_KILL_SWITCH_ACTIVE is emitted.
C4_KillSwitchCancels ==
    [][\A t \in Tickers :
          ProcessesJob(t) /\ voice_settings.killSwitch =>
              /\ ~Dispatched
              /\ voice_jobs_by_id'[Head(tick_jobs[t]).id].status = "cancelled"
              /\ voice_jobs_by_id'[Head(tick_jobs[t]).id].lastError = "kill_switch"
              /\ AlertEmitted("VOICE_KILL_SWITCH_ACTIVE")]_vars

\* The kill switch is on, a job was cancelled by it and the alert is there.
C4_Witness ==
    /\ voice_settings.killSwitch
    /\ \E i \in 1..Len(voice_jobs_by_id) :
          /\ voice_jobs_by_id[i].status = "cancelled"
          /\ voice_jobs_by_id[i].lastError = "kill_switch"
    /\ \E k \in 1..Len(voice_alerts) : voice_alerts[k].code = "VOICE_KILL_SWITCH_ACTIVE"

\* The job reaches the guardrails of the executor: it passes the kill switch,
\* the cart, suppression and phone checks, and it is not quiet hours.
ReachesGuardrails(t, job) ==
    /\ ReachesSuppressionCheck(job)
    /\ job.userId \notin SuppressedUsers
    /\ GetUser(job.userId).phone # ""
    /\ ~InQuietHours(GetUser(job.userId), tick_now[t], voice_settings)

\* C5: a job is dispatched only if, on the UTC day of the tick, callsToday <
\* maxCallsPerDay, userCallsToday < maxCallsPerUserPerDay and (callsToday + 1)
\* * estimatedCostPerCallUsd <= dailyBudgetUsd; a job that reaches the
\* guardrails otherwise is cancelled with the first failing guardrail's reason
\* and is not dispatched.
C5_GuardrailsGateDispatch ==
    [][\A t \in Tickers :
          ProcessesJob(t) =>
              LET row == Head(tick_jobs[t])
                  today == {i \in 1..Len(voice_calls_by_id) :
                              voice_calls_by_id[i].createdAt \div SecondsPerDay
                                  = tick_now[t] \div SecondsPerDay}
                  callsToday == Cardinality(today)
                  userCallsToday ==
                      Cardinality({i \in today : voice_calls_by_id[i].userId = row.job.userId})
                  callsOk == callsToday < voice_settings.maxCallsPerDay
                  userOk == userCallsToday < voice_settings.maxCallsPerUserPerDay
                  budgetOk == (callsToday + 1) * voice_settings.estimatedCostPerCallUsd
                                  <= voice_settings.dailyBudgetUsd
                  reason == IF ~callsOk THEN "max_calls_per_day_reached"
                            ELSE IF ~userOk THEN "max_calls_per_user_per_day_reached"
                            ELSE "daily_budget_exceeded"
              IN /\ Dispatched => callsOk /\ userOk /\ budgetOk
                 /\ ReachesGuardrails(t, row.job) /\ ~(callsOk /\ userOk /\ budgetOk) =>
                       /\ ~Dispatched
                       /\ voice_jobs_by_id'[row.id].status = "cancelled"
                       /\ voice_jobs_by_id'[row.id].lastError = reason]_vars

\* After a dispatch, a job was cancelled by a guardrail.
C5_Witness ==
    /\ provider_calls # EmptyBag
    /\ \E i \in 1..Len(voice_jobs_by_id) :
          /\ voice_jobs_by_id[i].status = "cancelled"
          /\ voice_jobs_by_id[i].lastError \in
                {"daily_budget_exceeded", "max_calls_per_user_per_day_reached",
                 "max_calls_per_day_reached"}

\* C6: _apply_outcome_actions runs at most once per VoiceCall.
C6_FollowupOncePerCall ==
    \A e \in BagToSet(followup_log) :
        /\ CopiesIn(e, followup_log) = 1
        /\ \A f \in BagToSet(followup_log) : f.callId = e.callId => f = e

\* ingest_provider_callback called on the present store, and called again
\* with the same payload on the store the first call leaves
IngestOnce(payload) ==
    IngestProviderCallback(payload, voice_calls_by_id, voice_suppressions_by_user,
                           support_tickets, notifications, followup_log)

IngestAgain(payload) ==
    LET first == IngestOnce(payload)
    IN IngestProviderCallback(payload, first.calls, first.suppressions, first.tickets,
                              first.notes, first.log)

SameEndState(a, b) ==
    /\ a.calls = b.calls
    /\ a.suppressions = b.suppressions
    /\ a.tickets = b.tickets
    /\ a.notes = b.notes
    /\ a.log = b.log

\* The payload carries the provider call id of a stored VoiceCall.
MatchesCall(payload) ==
    /\ payload.call_id # NoProviderCallId
    /\ FindCallByProviderId(voice_calls_by_id, payload.call_id) # 0

\* C7, as the claim states it: for every payload, a second call with the
\* same payload leaves the state of the first call, sends no further
\* notification, and returns idempotent = true.
C7_SecondCallIdempotent ==
    \A payload \in CallbackPayloads :
        /\ SameEndState(IngestOnce(payload), IngestAgain(payload))
        /\ IngestAgain(payload).result.idempotent

\* C7, amended: for every payload, a second call with the same payload leaves
\* the state of the first call and sends no further notification; it returns
\* idempotent = true when the payload matches a stored VoiceCall, and repeats
\* the first answer, which is not idempotent, when it matches none.
C7_MatchedSecondCallIdempotent ==
    \A payload \in CallbackPayloads :
        /\ SameEndState(IngestOnce(payload), IngestAgain(payload))
        /\ MatchesCall(payload) => IngestAgain(payload).result.idempotent
        /\ ~MatchesCall(payload) =>
              /\ IngestAgain(payload).result = IngestOnce(payload).result
              /\ ~IngestAgain(payload).result.idempotent

\* A callback was answered idempotent = true for a call whose follow-up ran
\* with one notification sent.
C7_Witness ==
    /\ callback_result.idempotent
    /\ Len(notifications) = 1
    /\ \E i \in 1..Len(voice_calls_by_id) :
          /\ voice_calls_by_id[i].followupApplied
          /\ voice_calls_by_id[i].providerEventKeys # <<>>

\* C8: a job is dispatched at most maxAttemptsPerCart times.
C8_DispatchesBounded ==
    \A j \in 1..Len(voice_jobs_by_id) :
        Dispatches(j, TRUE) + Dispatches(j, FALSE) <= voice_settings.maxAttemptsPerCart

\* C9: a failed dispatch that is retried sets nextRunAt to the tick's now +
\* backoff[min(attempt, len - 1)], attempt being the job's count before the
\* dispatch and backoff the settings' retryBackoffSeconds (indexed from 0).
C9_RetryBackoff ==
    [][\A t \in Tickers :
          /\ ProcessesJob(t)
          /\ Dispatched
          /\ voice_jobs_by_id'[Head(tick_jobs[t]).id].status = "retrying"
          => LET row == Head(tick_jobs[t])
                 backoff == voice_settings.retryBackoffSeconds
                 index == IF row.job.attempt < Len(backoff) - 1
                          THEN row.job.attempt ELSE Len(backoff) - 1
             IN /\ voice_jobs_by_id'[row.id].nextRunAt = tick_now[t] + backoff[index + 1]
                /\ voice_jobs_by_id'[row.id].attempt = row.job.attempt + 1]_vars

\* A job is retried after more failed dispatches than the backoff list has
\* delays: its last retry reused the last delay.
C9_Witness ==
    \E i \in 1..Len(voice_jobs_by_id) :
        /\ voice_jobs_by_id[i].status = "retrying"
        /\ voice_jobs_by_id[i].lastError = "provider failure"
        /\ voice_jobs_by_id[i].attempt > Len(voice_settings.retryBackoffSeconds)
        /\ voice_jobs_by_id[i].nextRunAt = now + Last(voice_settings.retryBackoffSeconds)

OptOutOutcomes == {"do_not_call", "opt_out", "dnc"}

OptOutEntry(user_id) == [userId |-> user_id, reason |-> "voice_opt_out"]

\* The call is terminal with an opt-out outcome, its terminal update done
TerminalOptOut(calls, i) ==
    /\ i \in DOMAIN calls
    /\ calls[i].status \in {"completed", "failed"}
    /\ calls[i].outcome \in OptOutOutcomes
    /\ calls[i].followupApplied

\* A user leaves the suppression list only by unsuppress_user for that user.
StaysSuppressed ==
    \A u \in Users : u \in SuppressedUsers /\ u \notin SuppressedUsers' => UnsuppressUser(u)

\* C10, as the claim states it: when a VoiceCall reaches a terminal state with
\* an opt-out outcome its user is on the suppression list with reason
\* voice_opt_out, and stays on the list until unsuppress_user.
C10_OptOutSuppressesUser ==
    [][/\ \A i \in DOMAIN voice_calls_by_id' :
             ~TerminalOptOut(voice_calls_by_id, i) /\ TerminalOptOut(voice_calls_by_id', i) =>
                 OptOutEntry(voice_calls_by_id'[i].userId) \in voice_suppressions_by_user'
       /\ StaysSuppressed]_vars

\* C10, amended: when the follow-up of a VoiceCall runs with an opt-out
\* outcome its user is put on the suppression list with reason voice_opt_out,
\* and a suppressed user stays on the list until unsuppress_user.
C10_OptOutFollowupSuppresses ==
    [][/\ \A e \in BagToSet(followup_log') :
             /\ CopiesIn(e, followup_log') > CopiesIn(e, followup_log)
             /\ e.outcome \in OptOutOutcomes
             /\ e.userId # ""
             => OptOutEntry(e.userId) \in voice_suppressions_by_user'
       /\ StaysSuppressed]_vars

\* The follow-up of a call ran with an opt-out outcome and the call's user is
\* suppressed with reason voice_opt_out.
C10_Witness ==
    \E e \in BagToSet(followup_log) :
        /\ e.outcome \in OptOutOutcomes
        /\ OptOutEntry(e.userId) \in voice_suppressions_by_user

\* The checks of the executor in the order of _process_single_job, each with
\* whether the job of ticker t fails it, read off the state before the step.
GuardrailReasons ==
    {"daily_budget_exceeded", "max_calls_per_user_per_day_reached", "max_calls_per_day_reached"}

CheckNames ==
    <<"kill_switch", "cart_or_user_missing", "suppressed_user", "missing_phone",
      "quiet_hours", "guardrails", "provider_not_configured">>

FailsCheck(t, job) ==
    LET user == GetUser(job.userId)
        cart == GetCart(job.cartId)
    IN <<voice_settings.killSwitch,
         user = NoUser \/ cart = NoCart \/ cart.itemCount <= 0,
         job.userId \in SuppressedUsers,
         user.phone = "",
         InQuietHours(user, tick_now[t], voice_settings),
         BudgetAndCapGuardrails(voice_calls_by_id, job.userId, voice_settings, tick_now[t]) # "ok",
         ~superu_enabled \/ voice_settings.assistantId = "" \/ voice_settings.fromPhoneNumber = "">>

\* What this step made of job job_id, named as the check that decides so:
\* a provider call is "dispatch", a reschedule without a new attempt is
\* "quiet_hours", a cancellation is named by its reason.
ObservedOutcome(job_id) ==
    LET before == voice_jobs_by_id[job_id]
        after == voice_jobs_by_id'[job_id]
    IN IF Dispatched THEN "dispatch"
       ELSE IF after.status = "retrying" /\ after.attempt = before.attempt THEN "quiet_hours"
       ELSE IF after.status = "cancelled" /\ after.lastError \in GuardrailReasons THEN "guardrails"
       ELSE IF after.status = "cancelled" THEN after.lastError
       ELSE "other"

QuietAtExecution(t, job) ==
    /\ ReachesSuppressionCheck(job)
    /\ job.userId \notin SuppressedUsers
    /\ GetUser(job.userId).phone # ""
    /\ InQuietHours(GetUser(job.userId), tick_now[t], voice_settings)

PhaseSuccessors ==
    [idle |-> {"enqueue"}, enqueue |-> {"due"}, due |-> {"jobs"}, jobs |-> {"poll"},
     poll |-> {"followup", "idle"}, followup |-> {"poll"}]

\* C13: each tick first enqueues, then processes its due jobs one at a time
\* in ascending nextRunAt order, then polls the provider, then evaluates the
\* alerts: jobs are added only by the enqueue step; a step of the job loop
\* takes the due job with the least nextRunAt and changes no other job; the
\* poll starts once no due job is left; the alerts are evaluated last.
C13_TickOrder ==
    [][\A t \in Tickers :
          /\ pc'[t] # pc[t] => pc'[t] \in PhaseSuccessors[pc[t]]
          /\ Len(voice_jobs_by_id') > Len(voice_jobs_by_id) =>
                \E u \in Tickers : pc[u] = "enqueue" /\ pc'[u] = "due"
          /\ ProcessesJob(t) =>
                /\ \A k \in 1..Len(tick_jobs'[t]) :
                       Head(tick_jobs[t]).job.nextRunAt <= tick_jobs'[t][k].job.nextRunAt
                /\ \A i \in 1..Len(voice_jobs_by_id) :
                       i # Head(tick_jobs[t]).id => voice_jobs_by_id'[i] = voice_jobs_by_id[i]
          /\ pc[t] = "jobs" /\ pc'[t] = "poll" => tick_jobs[t] = <<>>
          /\ voice_alerts' # voice_alerts =>
                \E u \in Tickers : ProcessesJob(u) \/ (pc[u] = "poll" /\ pc'[u] = "idle")
          /\ pc[t] = "poll" /\ pc'[t] = "idle" => tick_calls[t] = <<>>]_vars

\* In the job loop of a tick, job 2 was retried a second time at the tick's
\* now, before job 1, which was due later than job 2 and is still to be
\* processed.
C13_Witness ==
    \E t \in Tickers :
        /\ pc[t] = "jobs"
        /\ Len(tick_jobs[t]) = 1
        /\ Len(voice_jobs_by_id) = 2
        /\ Head(tick_jobs[t]).id = 1
        /\ Head(tick_jobs[t]).job.nextRunAt = tick_now[t]
        /\ voice_jobs_by_id[2].status = "retrying"
        /\ voice_jobs_by_id[2].attempt = 2
        /\ voice_jobs_by_id[2].nextRunAt = tick_now[t] + RetryDelay(voice_settings.retryBackoffSeconds, 2)

\* The statuses the data model lists for a VoiceCall
ListedCallStatuses ==
    {"queued", "initiated", "ringing", "in_progress", "completed", "failed", "suppressed",
     "skipped"}

\* C14, as claimed: every stored VoiceCall has a status in {queued, initiated,
\* ringing, in_progress, completed, failed, suppressed, skipped}.
C14_CallStatusListed ==
    \A i \in 1..Len(voice_calls_by_id) : voice_calls_by_id[i].status \in ListedCallStatuses

\* C14, amended: every stored VoiceCall has a status in {queued, initiated,
\* ringing, in_progress, completed, failed, suppressed, skipped, retrying}.
C14_CallStatusListedOrRetrying ==
    \A i \in 1..Len(voice_calls_by_id) :
        voice_calls_by_id[i].status \in ListedCallStatuses \cup {"retrying"}

\* A call whose dispatch failed waits for its retry, and says so in its status.
C14_Witness ==
    \E i \in 1..Len(voice_calls_by_id) :
        /\ voice_calls_by_id[i].status = "retrying"
        /\ voice_calls_by_id[i].nextRetryAt # NoTime

\* C15: whatever the planner puts out, every action of the plan that
\* plan_actions returns has a name among the allowed planner actions and
\* carries only parameter keys of that action's allow-list.
C15_PlanWithinAllowList ==
    planner.pc = "done" /\ planner.plan # NoPlan =>
        \A k \in 1..Len(planner.plan.actions) :
            LET action == planner.plan.actions[k]
            IN /\ action.name \in DOMAIN SUPPORTED_PLANNER_ACTIONS
               /\ {e.key : e \in action.params}
                     \subseteq SUPPORTED_PLANNER_ACTIONS[action.name].allowedParams

\* A plan was returned of which an action came with a key outside its
\* allow-list.
C15_Witness ==
    /\ planner.pc = "done"
    /\ planner.plan # NoPlan
    /\ planner.plan.actions # <<>>
    /\ planner.dropped

\* C16: when the call of the LLM fails (timeout, HTTP error, invalid JSON,
\* open circuit, any exception), process_message has no prediction to use
\* and still returns a response, built without the planner, without raising.
C16_LlmFailureStillResponds ==
    request.pc = "done" /\ request.llm_outcome \in LlmFailures =>
        /\ request.raised = "none"
        /\ request.response # NoResponse
        /\ ~request.response.planner_used

\* The indexes of the actions whose agent has been called, and whether the
\* result of action i is in the response the executor returns
ExecutedIndexes == {run.executed[k].index : k \in 1..Len(run.executed)}
ExecutedInOrder == \A k \in 1..Len(run.executed) : run.executed[k].index = k
FailedBeforeLast == \E k \in 1..(Len(run.executed) - 1) : ~run.executed[k].success
Appears(i) ==
    /\ \E k \in 1..Len(run.result.messages) : run.result.messages[k] = i
    /\ \E a \in DOMAIN run.result.data \ {"partialFailure"} :
         \E j \in 1..Len(run.result.data[a]) : run.result.data[a][j].of = i

FanOutAggregatesAll ==
    /\ run.executed # <<>> => run.submitted = 1..Len(run.actions)
    /\ run.pc = "done" =>
         \A i \in 1..Len(run.actions) : i \in ExecutedIndexes /\ Appears(i)

C21_ClassifierLlmOnlyWhenAllowed ==
    request.pc = "done" =>
        LET allow_classifier_llm ==
                /\ request.settings.llm_decision_policy = "classifier_first"
                /\ ~PlannerEnabledForRequest(request.settings, request.bucket)
        IN /\ request.classifier_llm_consulted => allow_classifier_llm
           /\ ~allow_classifier_llm => request.classified_by = "rules"

\* C22: validation drops the rows with unknown names first and caps at
\* MAX_PLAN_ACTIONS afterwards: a returned plan holds the first min(5, k) of
\* the k allow-listed actions of the planner's answer.
C22_PlanHoldsFirstFiveValid ==
    planner.pc = "done" /\ planner.plan # NoPlan /\ ~planner.plan.needs_clarification =>
        planner.plan.actions
            = SubSeq(planner.valid, 1, Min(MAX_PLAN_ACTIONS, Len(planner.valid)))

\* C23: without needsClarification, plan_actions returns a plan only if the
\* confidence is at least PLAN_CONFIDENCE_FLOOR and validation left at least
\* one action, and no prediction otherwise.
C23_PlanNeedsConfidenceAndAction ==
    planner.pc = "done" /\ ~planner.needs_clarification =>
        /\ planner.plan # NoPlan =>
              /\ planner.outcome = "json_object"
              /\ planner.confidence >= PLAN_CONFIDENCE_FLOOR
              /\ planner.actions # <<>>
              /\ planner.plan.actions = planner.actions
        /\ planner.plan = NoPlan =>
              \/ planner.outcome # "json_object"
              \/ planner.confidence < PLAN_CONFIDENCE_FLOOR
              \/ planner.actions = <<>>

C23_Witness ==
    /\ planner.pc = "done" /\ ~planner.needs_clarification
    /\ planner.outcome = "json_object"
    /\ planner.plan = NoPlan
    /\ planner.actions # <<>>
    /\ planner.confidence < PLAN_CONFIDENCE_FLOOR

\* Whether process_message would try the planner for this request, and
\* whether the plan it would get asks for a clarification
ShouldTryPlanner(req) ==
    /\ PlannerEnabledForRequest(req.settings, req.bucket)
    /\ (req.settings.llm_decision_policy = "planner_first" \/ Len(Extract(req.intent)) > 1)
PlanNeedsClarification(req) ==
    /\ ShouldTryPlanner(req)
    /\ BuildLlmActionPlan(req.llm_outcome, req.llm_plan) # NoPlan
    /\ BuildLlmActionPlan(req.llm_outcome, req.llm_plan).needs_clarification

\* C24: when the plan asks for a clarification, process_message returns
\* success false with data.code CLARIFICATION_REQUIRED, the question as
\* message, agent "orchestrator" and metadata.planner.used true, and executes
\* no agent action.
C24_ClarificationResponse ==
    request.pc = "done" /\ PlanNeedsClarification(request) =>
        /\ request.raised = "none"
        /\ request.response.kind = "clarification"
        /\ ~request.response.success
        /\ request.response.code = "CLARIFICATION_REQUIRED"
        /\ request.response.message = "clarification_question"
        /\ request.response.agent = "orchestrator"
        /\ request.response.planner_used
        /\ request.response.actions = <<>>

\* What process_message does after the classification, for any request
ResponseOf(req) ==
    Respond(req, req.settings.llm_decision_policy,
            PlannerEnabledForRequest(req.settings, req.bucket))

\* C25: with planner_canary_percent <= 0 the planner is attempted for no
\* request; with planner_canary_percent >= 100 and both planner flags on it
\* is eligible for every request. Stated of the requests as they run and of
\* the code after the classification.
C25_CanaryZeroNeverHundredAlways ==
    /\ request.pc = "done" =>
          /\ request.settings.planner_canary_percent <= 0 =>
                /\ ~request.planner_enabled
                /\ request.response # NoResponse => ~request.response.planner_attempted
          /\ ( /\ request.settings.planner_canary_percent >= 100
               /\ request.settings.planner_feature_enabled
               /\ request.settings.llm_planner_enabled ) => request.planner_enabled
    /\ \A req \in Requests :
          req.settings.planner_canary_percent <= 0 => ~ResponseOf(req).planner_attempted

C25_Witness ==
    /\ request.pc = "done"
    /\ request.settings.planner_canary_percent >= 100
    /\ request.settings.planner_feature_enabled
    /\ request.settings.llm_planner_enabled
    /\ request.bucket = 90
    /\ request.planner_enabled

\* ------------------------------------------- AdminActivityService.record
\* The admin routes are plain functions, which the server runs on the threads
\* of its pool: a caller is one such thread inside record.
MaxLogEntries == 4
AdminCallers == {"w1", "w2"}
AdminActions == {"category_create", "category_update", "product_delete"}

\* _compute_entry_hash: the HMAC of the canonical JSON of the payload. The
\* digest stands for what it was computed from (the id, the action and the
\* prevHash; the other fields are the same in every call here), so digests
\* are equal exactly when payloads are; "" is the digest of nothing.
EmptyHash == [digest |-> <<>>]
ComputeEntryHash(payload) ==
    [digest |-> <<payload.id, payload.action, payload.prevHash.digest>>]

PreviousHashOfFirst(logs) ==
    IF logs = <<>> THEN EmptyHash ELSE Head(logs).entryHash

\* record, its first critical section: the entryHash of the last entry
PreviousHash(logs) ==
    IF logs = <<>> THEN EmptyHash ELSE Last(logs).entryHash

NoCall == [pc |-> "idle"]
NoReport == [ok |-> TRUE, total |-> -1, issues |-> <<>>]
AdminStart ==
    [logs |-> <<>>, counter |-> 0, calls |-> [w \in AdminCallers |-> NoCall],
     listed |-> <<>>, report |-> NoReport]
CallsUnderWay == Cardinality({w \in AdminCallers : admin.calls[w] # NoCall})

\* record up to the end of `with self.store.lock`
RecordReadLast(w, action) ==
    /\ admin # Idle
    /\ admin.calls[w] = NoCall
    /\ Len(admin.logs) + CallsUnderWay < MaxLogEntries
    /\ admin' = [admin EXCEPT !.calls[w] = [pc |-> "read", action |-> action,
                                            previous_hash |-> PreviousHash(admin.logs)]]
    /\ UNCHANGED <<voiceVars, planner, request, run, session, orders, breaker, loop>>

\* record: next_id, the payload and its entryHash
RecordBuild(w) ==
    /\ admin # Idle
    /\ admin.calls[w].pc = "read"
    /\ LET payload == [id |-> admin.counter + 1, action |-> admin.calls[w].action,
                       prevHash |-> admin.calls[w].previous_hash]
       IN admin' = [admin EXCEPT
                       !.counter = @ + 1,
                       !.calls[w] = [pc |-> "built",
                                     payload |-> [id |-> payload.id,
                                                  action |-> payload.action,
                                                  prevHash |-> payload.prevHash,
                                                  entryHash |-> ComputeEntryHash(payload)]]]
    /\ UNCHANGED <<voiceVars, planner, request, run, session, orders, breaker, loop>>

\* AdminActivityRepository.create, and the return of record
RecordCreate(w) ==
    /\ admin # Idle
    /\ admin.calls[w].pc = "built"
    /\ admin' = [admin EXCEPT !.logs = Append(@, admin.calls[w].payload),
                              !.calls[w] = NoCall]
    /\ UNCHANGED <<voiceVars, planner, request, run, session, orders, breaker, loop>>

Record(callers) ==
    \/ \E w \in callers, action \in AdminActions : RecordReadLast(w, action)
    \/ \E w \in callers : RecordBuild(w)
    \/ \E w \in callers : RecordCreate(w)

InitAdmin ==
    /\ InitStore(BaseSettings, TRUE)
    /\ planner = Idle /\ request = Idle /\ run = Idle
    /\ session = Idle /\ orders = Idle /\ breaker = Idle /\ loop = Idle
    /\ admin = AdminStart

\* max(1, min(limit, cap))
SafeLimit(limit, cap) == Max(1, Min(limit, cap))

\* logs[-n:] for n >= 1
LastRows(logs, n) == SubSeq(logs, Max(1, Len(logs) - n + 1), Len(logs))

\* list.sort(key=timestamp, reverse=True): stable; the timestamps of the
\* entries rise with their ids
RECURSIVE InsertByTimestampDesc(_, _)
InsertByTimestampDesc(sorted, row) ==
    IF sorted = <<>> THEN <<row>>
    ELSE IF Head(sorted).id >= row.id
    THEN <<Head(sorted)>> \o InsertByTimestampDesc(Tail(sorted), row)
    ELSE <<row>> \o sorted

RECURSIVE SortByTimestampDesc(_)
SortByTimestampDesc(rows) ==
    IF rows = <<>> THEN <<>>
    ELSE InsertByTimestampDesc(SortByTimestampDesc(SubSeq(rows, 1, Len(rows) - 1)), Last(rows))

ListLimitCap == 500
VerifyLimitCap == 10000
Limits == {0, 1, 2, 100, 5000}

\* AdminActivityRepository.list_recent: the last rows of the store, newest
\* first. The store is only empty before the first record, when the Mongo
\* collection holds nothing to load either.
ListRecent(limit) ==
    /\ admin # Idle
    /\ \A w \in AdminCallers : admin.calls[w] = NoCall
    /\ LET cached == LastRows(admin.logs, SafeLimit(limit, ListLimitCap))
       IN admin' = [admin EXCEPT !.listed = SortByTimestampDesc(cached)]
    /\ UNCHANGED <<voiceVars, planner, request, run, session, orders, breaker, loop>>

\* verify_integrity, its loop over the rows from row i on: the issues found
RECURSIVE VerifyRows(_, _, _)
VerifyRows(logs, i, expected_prev) ==
    IF i > Len(logs) THEN <<>>
    ELSE LET row == logs[i]
             prev == IF row.prevHash # expected_prev
                     THEN <<[id |-> row.id, error |-> "prev_hash_mismatch"]>> ELSE <<>>
             entry == IF row.entryHash = EmptyHash
                      THEN <<[id |-> row.id, error |-> "missing_entry_hash"]>>
                      ELSE IF row.entryHash # ComputeEntryHash(row)
                      THEN <<[id |-> row.id, error |-> "entry_hash_mismatch"]>>
                      ELSE <<>>
         IN prev \o entry \o VerifyRows(logs, i + 1, row.entryHash)

\* verify_integrity: what it returns for the store's log
VerifyIntegrity(all_logs, limit) ==
    LET logs == LastRows(all_logs, SafeLimit(limit, VerifyLimitCap))
        issues == VerifyRows(logs, 1, EmptyHash)
    IN IF logs = <<>> THEN [ok |-> TRUE, total |-> 0, issues |-> <<>>]
       ELSE [ok |-> issues = <<>>, total |-> Len(logs), issues |-> issues]

Verify(limit) ==
    /\ admin # Idle
    /\ \A w \in AdminCallers : admin.calls[w] = NoCall
    /\ admin' = [admin EXCEPT !.report = VerifyIntegrity(admin.logs, limit)]
    /\ UNCHANGED <<voiceVars, planner, request, run, session, orders, breaker, loop>>

\* record called again and again by one caller, and by the callers of the pool
NextAdmin == Record({"w1"})
SpecAdmin == InitAdmin /\ [][NextAdmin]_vars

NextAdminConc == Record(AdminCallers)
SpecAdminConc == InitAdmin /\ [][NextAdminConc]_vars

\* record, list_recent and verify_integrity called one after the other
NextVerify ==
    \/ Record({"w1"})
    \/ \E limit \in Limits : ListRecent(limit)
    \/ \E limit \in Limits : Verify(limit)

SpecVerify == InitAdmin /\ [][NextVerify]_vars

\* ------------------------------------------------ OrderService.create_order
\* Requests run on the threads of the server's pool: a worker is one of them
\* inside create_order. A cart holds items or none; add_item is called at most
\* MaxCartFills times.
MaxCartFills == 2
OrderWorkers == {"w1", "w2"}
OrderUsers == {"user_000001", "user_000002"}
IdempotencyKeys == {Raw("k1"), Padded("k1"), Padded("")}
PaymentOutcomes == {"authorized", "raises"}

\* f"{user_id}:{idempotency_key.strip()}": user ids hold no colon, so the
\* string is the pair
IdempotencyKey(user_id, idempotency_key) == <<user_id, Strip(idempotency_key)>>

\* OrderRepository.get_idempotent followed by OrderRepository.get
ExistingOrders(key) ==
    {order \in orders.orders_by_id :
        \E row \in orders.idempotency_keys : row.key = key /\ row.orderId = order.id}

NoOrderCall == [pc |-> "idle"]
OrdersStart ==
    [orders_by_id |-> {}, idempotency_keys |-> {},
     items |-> [u \in OrderUsers |-> 0], fills |-> 0,
     calls |-> [w \in OrderWorkers |-> NoOrderCall],
     returned |-> {}, raised |-> {}]

\* CartService.add_item on the user's active cart
AddItem(user_id) ==
    /\ orders # Idle
    /\ orders.fills < MaxCartFills
    /\ orders' = [orders EXCEPT !.items[user_id] = 1, !.fills = @ + 1]
    /\ UNCHANGED <<voiceVars, planner, request, run, session, admin, breaker, loop>>

\* create_order up to the return of the existing order
CheckIdempotent(w, user_id, idempotency_key) ==
    /\ orders # Idle
    /\ orders.calls[w] = NoOrderCall
    /\ LET key == IdempotencyKey(user_id, idempotency_key)
       IN orders' =
            IF Strip(idempotency_key) = ""
            THEN [orders EXCEPT !.raised = @ \cup {"Missing Idempotency-Key header"}]
            ELSE IF ExistingOrders(key) # {}
            THEN [orders EXCEPT
                     !.returned = @ \cup {[key |-> key, orderId |-> order.id] :
                                             order \in ExistingOrders(key)}]
            ELSE [orders EXCEPT !.calls[w] = [pc |-> "checked", userId |-> user_id,
                                               key |-> key]]
    /\ UNCHANGED <<voiceVars, planner, request, run, session, admin, breaker, loop>>

\* create_order: get_cart, reserve_for_order and authorize
AuthorizePayment(w, outcome) ==
    /\ orders # Idle
    /\ orders.calls[w].pc = "checked"
    /\ LET call == orders.calls[w]
       IN orders' =
            IF orders.items[call.userId] = 0
            THEN [orders EXCEPT !.calls[w] = NoOrderCall,
                                !.raised = @ \cup {"Cart is empty"}]
            ELSE IF outcome = "raises"
            THEN [orders EXCEPT !.calls[w] = NoOrderCall,
                                !.raised = @ \cup {"payment"}]
            ELSE [orders EXCEPT !.calls[w] = [call EXCEPT !.pc = "authorized"]]
    /\ UNCHANGED <<voiceVars, planner, request, run, session, admin, breaker, loop>>

\* create_order, the block under store.lock: the order, its idempotency row,
\* the cart converted (the user's next cart is a new, empty one). createdFor
\* is not a field of the order: it remembers which key the call carried.
CreateLocked(w) ==
    /\ orders # Idle
    /\ orders.calls[w].pc = "authorized"
    /\ LET call == orders.calls[w]
           order == [id |-> Cardinality(orders.orders_by_id) + 1, userId |-> call.userId,
                     status |-> "confirmed", createdAt |-> now,
                     createdFor |-> call.key]
       IN orders' = [orders EXCEPT
                        !.orders_by_id = @ \cup {order},
                        !.idempotency_keys =
                            {row \in @ : row.key # call.key}
                                \cup {[key |-> call.key, orderId |-> order.id]},
                        !.items[call.userId] = 0,
                        !.calls[w] = NoOrderCall,
                        !.returned = @ \cup {[key |-> call.key, orderId |-> order.id]}]
    /\ UNCHANGED <<voiceVars, planner, request, run, session, admin, breaker, loop>>

InitOrders ==
    /\ InitStore(BaseSettings, TRUE)
    /\ planner = Idle /\ request = Idle /\ run = Idle
    /\ session = Idle /\ admin = Idle /\ breaker = Idle /\ loop = Idle
    /\ orders = OrdersStart

NextOrders ==
    \/ \E user_id \in OrderUsers : AddItem(user_id)
    \/ \E w \in OrderWorkers, user_id \in OrderUsers, idempotency_key \in IdempotencyKeys :
          CheckIdempotent(w, user_id, idempotency_key)
    \/ \E w \in OrderWorkers, outcome \in PaymentOutcomes : AuthorizePayment(w, outcome)
    \/ \E w \in OrderWorkers : CreateLocked(w)

SpecOrders == InitOrders /\ [][NextOrders]_vars

\* ----------------------------------------- process_message, message by message
\* The messages of a few sessions, handled one after the other. The route
\* awaits process_message on the event loop and the code from its first line
\* to the classify call holds no await, so a message runs from its arrival to
\* the exception of the classify call in one step.
MaxMessages == 4
RecentLimit == 12
SessionIds == {"session_1", "session_2"}
SessionUsers == {"", "user_000001"}

\* InteractionService.recent: the last `limit` records of the session, the
\* most recent last
Recent(interactions, session_id, limit) ==
    LET rows == interactions[session_id]
    IN SubSeq(rows, Max(1, Len(rows) - limit + 1), Len(rows))

\* _recent_from_memory: the rows of the user's memory history as records of
\* the session "memory"
RecentFromMemory(history, limit) ==
    [i \in 1..Min(limit, Len(history)) |->
        [id |-> i, sessionId |-> "memory", message |-> history[i]]]

SessionStart ==
    [interactions |-> [s \in SessionIds |-> <<>>], history |-> <<>>, messages |-> <<>>]

\* InteractionService.record: the record is appended to those of its session
RecordInteraction(interactions, record) ==
    [interactions EXCEPT ![record.sessionId] = Append(@, record)]

\* process_message for the next message that arrives: recent is loaded and the
\* classify call is made with allow_llm. The call raises TypeError, so nothing
\* after it runs, the record of the message included.
ProcessSessionMessage(session_id, user_id) ==
    /\ session # Idle
    /\ Len(session.messages) < MaxMessages
    /\ LET loaded == Recent(session.interactions, session_id, RecentLimit)
           recent == IF loaded = <<>> /\ user_id # ""
                     THEN RecentFromMemory(session.history, RecentLimit)
                     ELSE loaded
           raises == ~BindsKeywords(ClassifyArguments, ClassifyParameters)
           message == [id |-> Len(session.messages) + 1, sessionId |-> session_id,
                       userId |-> user_id, recent |-> recent,
                       raised |-> IF raises THEN "TypeError" ELSE ""]
       IN session' =
            IF raises
            THEN [session EXCEPT !.messages = Append(@, message)]
            ELSE [session EXCEPT
                     !.messages = Append(@, message),
                     !.interactions =
                         RecordInteraction(@, [id |-> message.id,
                                               sessionId |-> session_id,
                                               message |-> message.id])]
    /\ UNCHANGED <<voiceVars, planner, request, run, admin, orders, breaker, loop>>

InitSession ==
    /\ InitStore(BaseSettings, TRUE)
    /\ planner = Idle /\ request = Idle /\ run = Idle
    /\ admin = Idle /\ orders = Idle /\ breaker = Idle /\ loop = Idle
    /\ session = SessionStart

NextSession ==
    \E session_id \in SessionIds, user_id \in SessionUsers :
        ProcessSessionMessage(session_id, user_id)

SpecSession == InitSession /\ [][NextSession]_vars

\* ------------------------------------------------------------ CircuitBreaker
\* The breaker that wraps the LLM client's outbound calls: closed, open or
\* half-open, with a failure threshold and a recovery timeout. Its clock
\* counts the timeout's unit and is advanced at most MaxBreakerTime times; the
\* wrapped function is called at most MaxBreakerCalls times.
MaxBreakerTime == 3
MaxBreakerCalls == 4
FailureThresholds == {1, 2}
RecoveryTimeouts == {1, 2}
CallOutcomes == {"returns", "raises"}

BreakerStart(failure_threshold, recovery_timeout) ==
    [state |-> "closed", failure_count |-> 0, opened_at |-> 0, now |-> 0,
     failure_threshold |-> failure_threshold, recovery_timeout |-> recovery_timeout,
     invoked |-> 0, streak |-> 0, last |-> "none"]

AdmitsWhileOpen(b) == TRUE

\* call, its gate: a closed breaker lets the call through, an open one only
\* once the recovery timeout has elapsed since it opened (the half-open trial)
Admits(b) ==
    \/ b.state # "open"
    \/ b.now - b.opened_at >= b.recovery_timeout

\* call, after the wrapped function returned
OnSuccess(b) ==
    [b EXCEPT !.state = "closed", !.failure_count = 0,
              !.invoked = @ + 1, !.streak = 0, !.last = "returned"]

\* call, after the wrapped function raised: a failed trial, or the failure
\* that reaches the threshold, opens the breaker
OnFailure(b, trial) ==
    LET failures == b.failure_count + 1
        opens == trial \/ failures >= b.failure_threshold
    IN [b EXCEPT !.state = IF opens THEN "open" ELSE "closed",
                 !.failure_count = failures,
                 !.opened_at = IF opens THEN b.now ELSE @,
                 !.invoked = @ + 1, !.streak = @ + 1, !.last = "raised"]

\* CircuitBreaker.call(fn): CircuitBreakerOpenError while the breaker does
\* not admit the call, else fn is invoked and its outcome recorded. streak
\* counts the failed calls since the last one that returned.
BreakerCall(outcome) ==
    /\ breaker # Idle
    /\ breaker.invoked < MaxBreakerCalls
    /\ breaker' =
         IF ~Admits(breaker) THEN [breaker EXCEPT !.last = "rejected"]
         ELSE IF outcome = "returns" THEN OnSuccess(breaker)
         ELSE OnFailure(breaker, breaker.state = "open")
    /\ UNCHANGED <<voiceVars, planner, request, run, session, admin, orders, loop>>

\* time.monotonic() moves on
BreakerClock ==
    /\ breaker # Idle
    /\ breaker.now < MaxBreakerTime
    /\ breaker' = [breaker EXCEPT !.now = @ + 1]
    /\ UNCHANGED <<voiceVars, planner, request, run, session, admin, orders, loop>>

InitBreaker ==
    /\ InitStore(BaseSettings, TRUE)
    /\ planner = Idle /\ request = Idle /\ run = Idle
    /\ session = Idle /\ admin = Idle /\ orders = Idle /\ loop = Idle
    /\ \E failure_threshold \in FailureThresholds, recovery_timeout \in RecoveryTimeouts :
          breaker = BreakerStart(failure_threshold, recovery_timeout)

NextBreaker ==
    \/ \E outcome \in CallOutcomes : BreakerCall(outcome)
    \/ BreakerClock

SpecBreaker == InitBreaker /\ [][NextBreaker]_vars

\* --------------------------------------------- _voice_recovery_scheduler_loop
\* The scheduler task of app_lifespan. Its clock counts units of which the
\* scan interval has ScanInterval, and is advanced at most MaxLoopTime times.
\* The steps the event loop takes for the task take no time: the clock moves
\* only while the task waits for the worker thread or for the stop event.
MaxLoopTime == 5
ScanInterval == 2
TickOutcomes == {"returns", "raises"}

LoopStart ==
    [pc |-> "check", stop |-> FALSE, cancel |-> FALSE, thread |-> "idle",
     clock |-> 0, wait_started |-> 0, stop_at |-> NoTime, ticks |-> 0]

\* `while not stop_event.is_set()`: the loop ends, or the next tick is handed
\* to a worker thread and the task awaits it
LoopCheck ==
    /\ loop # Idle
    /\ loop.pc = "check"
    /\ ~loop.cancel
    /\ loop' = IF loop.stop THEN [loop EXCEPT !.pc = "done"]
               ELSE [loop EXCEPT !.pc = "tick", !.thread = "running", !.ticks = @ + 1]
    /\ UNCHANGED <<voiceVars, planner, request, run, session, admin, orders, breaker>>

\* process_due_work ends on its thread; what it raised is suppressed and the
\* task goes on to wait for the stop event. A task that was cancelled
\* meanwhile is not there any more to resume.
TickEnds(outcome) ==
    /\ loop # Idle
    /\ loop.thread = "running"
    /\ loop' = IF loop.pc = "tick" /\ ~loop.cancel
               THEN [loop EXCEPT !.thread = "idle", !.pc = "wait",
                                 !.wait_started = loop.clock]
               ELSE [loop EXCEPT !.thread = "idle"]
    /\ UNCHANGED <<voiceVars, planner, request, run, session, admin, orders, breaker>>

\* wait_for(stop_event.wait(), timeout): the event is set, or the interval is over
WaitEnds ==
    /\ loop # Idle
    /\ loop.pc = "wait"
    /\ ~loop.cancel
    /\ loop.stop \/ loop.clock - loop.wait_started >= ScanInterval
    /\ loop' = [loop EXCEPT !.pc = "check"]
    /\ UNCHANGED <<voiceVars, planner, request, run, session, admin, orders, breaker>>

ShutdownWithoutCancel(l) ==
    [l EXCEPT !.stop = TRUE, !.stop_at = l.clock]

\* app_lifespan on shutdown: the stop event is set and the task cancelled
Shutdown(l) ==
    [l EXCEPT !.stop = TRUE, !.stop_at = l.clock, !.cancel = (l.pc # "done")]

LifespanEnds ==
    /\ loop # Idle
    /\ ~loop.stop
    /\ loop' = Shutdown(loop)
    /\ UNCHANGED <<voiceVars, planner, request, run, session, admin, orders, breaker>>

\* The cancellation reaches the task where it awaits: CancelledError is no
\* Exception, so neither suppress(Exception) nor `except TimeoutError` keeps
\* it, and the task ends. The worker thread is not interrupted.
CancelDelivered ==
    /\ loop # Idle
    /\ loop.cancel
    /\ loop' = [loop EXCEPT !.pc = "done", !.cancel = FALSE]
    /\ UNCHANGED <<voiceVars, planner, request, run, session, admin, orders, breaker>>

\* Time passes while no step of the task is ready
LoopClock ==
    /\ loop # Idle
    /\ loop.clock < MaxLoopTime
    /\ ~loop.cancel
    /\ loop.pc # "check"
    /\ loop.pc = "wait" => (~loop.stop /\ loop.clock - loop.wait_started < ScanInterval)
    /\ loop' = [loop EXCEPT !.clock = @ + 1]
    /\ UNCHANGED <<voiceVars, planner, request, run, session, admin, orders, breaker>>

InitLoop ==
    /\ InitStore(BaseSettings, TRUE)
    /\ planner = Idle /\ request = Idle /\ run = Idle
    /\ session = Idle /\ admin = Idle /\ orders = Idle /\ breaker = Idle
    /\ loop = LoopStart

NextLoop ==
    \/ LoopCheck
    \/ \E outcome \in TickOutcomes : TickEnds(outcome)
    \/ WaitEnds
    \/ LifespanEnds
    \/ CancelDelivered
    \/ LoopClock

\* The event loop runs a task that is ready
SpecLoop ==
    InitLoop /\ [][NextLoop]_vars
        /\ WF_vars(LoopCheck) /\ WF_vars(WaitEnds) /\ WF_vars(CancelDelivered)

\* ------------------------------------------- create_order and the scheduler
\* A shopper checks out while the scheduler runs. create_order succeeds as a
\* whole here (one call, the payment authorised): the order is stored with
\* createdAt, and mark_cart_converted_for_user stamps the user's active cart
\* and sets its status; the items stay in it. The empty cart the user gets
\* next is never enqueued and is left out.
CheckoutStart == [orders_by_id |-> {}]

ActiveCartOf(user_id) ==
    {c \in Carts : carts_by_id[c].userId = user_id /\ carts_by_id[c].status = "active"}

PlaceOrder(user_id) ==
    /\ orders # Idle
    /\ \E c \in ActiveCartOf(user_id) :
          /\ carts_by_id[c].itemCount > 0
          /\ orders' = [orders EXCEPT
                           !.orders_by_id =
                               @ \cup {[id |-> Cardinality(orders.orders_by_id) + 1,
                                        userId |-> user_id, status |-> "confirmed",
                                        createdAt |-> now]}]
          /\ carts_by_id' = [carts_by_id EXCEPT ![c].status = "converted",
                                                ![c].updatedAt = now]
    /\ UNCHANGED <<manual_ticks, now, superu_enabled, provider_calls, followup_log,
                   callback_result, voice_settings, users_by_id, voice_jobs_by_id,
                   voice_calls_by_id, voice_suppressions_by_user, voice_call_idempotency,
                   voice_alerts, notifications, support_tickets, tickVars>>
    /\ UNCHANGED <<planner, request, run, session, admin, breaker, loop>>

InitCheckout ==
    /\ InitStore(BaseSettings, TRUE)
    /\ planner = Idle /\ request = Idle /\ run = Idle
    /\ session = Idle /\ admin = Idle /\ breaker = Idle /\ loop = Idle
    /\ orders = CheckoutStart

\* The voice actions leave `orders` alone through orchVars
NextCheckout ==
    \/ Tick("scheduler", {"call_id", "raise"}, {ConvertedRow})
    \/ Advance
    \/ \E user_id \in Users : PlaceOrder(user_id)

SpecCheckout == InitCheckout /\ [][NextCheckout]_vars

\* -------------------------------------------- recovery switched off and on
\* The admin switches voice recovery off and on again (update_settings with
\* `enabled`) while the scheduler runs.
EnabledUpdates == { [enabled |-> FALSE], [enabled |-> TRUE] }

NextSwitch ==
    \/ Tick("scheduler", {"call_id", "raise"}, {ConvertedRow})
    \/ Advance
    \/ \E updates \in EnabledUpdates : UpdateSettings(updates)

SpecSwitch == InitLate /\ [][NextSwitch]_vars

\* ------------------------------------------------- one day under a low cap
\* The scheduler loop over the first minutes of a UTC day, with a cap of two
\* calls a day and a provider that may fail every call: the whole run lies
\* within that day.
DayStart == SecondsPerDay

CapSettings == [BaseSettings EXCEPT !.maxCallsPerDay = 2, !.retryBackoffSeconds = <<60>>]

InitDay == InitStoreAt(CapSettings, TRUE, DayStart) /\ OrchestratorIdle

NextDay ==
    \/ Tick("scheduler", {"call_id", "raise"}, {ConvertedRow})
    \/ AdvanceLate
    \/ \E c \in Carts, count \in {0, 2} : CartUpdate(c, count)

SpecDay == InitDay /\ [][NextDay]_vars

\* The same day with the seeded cap a day and one call a user a day
UserCapSettings == [BaseSettings EXCEPT !.maxCallsPerUserPerDay = 1, !.retryBackoffSeconds = <<60>>]

InitUserCap == InitStoreAt(UserCapSettings, TRUE, DayStart) /\ OrchestratorIdle

SpecUserCap == InitUserCap /\ [][NextDay]_vars

\* ------------------------------------------------ the loop left to itself
\* _voice_recovery_scheduler_loop as it runs: a tick, the wait of one scan
\* interval (a minute here), the next tick. The shoppers change carts during
\* the first minute, the provider accepts or fails every call, and the quiet
\* hours are off or last until midnight. The clock stops at LiveHorizon, by
\* which a job enqueued in the first two ticks has had every attempt the
\* settings allow.
LiveSettings ==
    { [BaseSettings EXCEPT !.maxAttemptsPerCart = 2, !.retryBackoffSeconds = <<60>>],
      [BaseSettings EXCEPT !.maxAttemptsPerCart = 2, !.retryBackoffSeconds = <<60>>,
                           !.quietHoursStart = 23] }

LiveHorizon ==
    StartTime + (StartBeforeMidnight + BaseSettings.maxAttemptsPerCart) * SecondsPerMinute

\* asyncio.wait_for(stop_event.wait(), timeout=interval): the wait that
\* follows every tick
AdvanceLoop ==
    /\ UNCHANGED orchVars
    /\ pc["scheduler"] = "idle"
    /\ tick_now["scheduler"] = now
    /\ now + SecondsPerMinute <= LiveHorizon
    /\ now' = now + SecondsPerMinute
    /\ UNCHANGED <<superu_enabled, provider_calls, followup_log, callback_result, storeVars,
                   tickVars, manual_ticks>>

LoopTick == Tick("scheduler", ProviderResponses, {ConvertedRow})

EarlyCartUpdate == now = StartTime /\ \E c \in Carts : CartUpdate(c, 2)

InitLive ==
    /\ \E settings \in LiveSettings : InitStoreAt(settings, TRUE, StartTime)
    /\ OrchestratorIdle

NextLive == LoopTick \/ AdvanceLoop \/ EarlyCartUpdate

SpecLive == InitLive /\ [][NextLive]_vars /\ WF_vars(LoopTick) /\ WF_vars(AdvanceLoop)

\* ------------------------------------------------- a job that always raises
\* The same loop when the processing of one job raises outside the try block
\* of _process_single_job, every time it is processed: `loop.raising` is the
\* id of that job, 0 when no job raises.
RaisingStart(job_id) == [pc |-> "running", raising |-> job_id]

\* The exception leaves _process_single_job, the loop of _process_due_jobs
\* and process_due_work; suppress(Exception) of the scheduler loop swallows
\* it: the rest of the tick is skipped, the store is as it was.
TickRaises(t) ==
    /\ pc[t] = "jobs"
    /\ tick_jobs[t] # <<>>
    /\ Head(tick_jobs[t]).id = loop.raising
    /\ pc' = [pc EXCEPT ![t] = "idle"]
    /\ tick_jobs' = [tick_jobs EXCEPT ![t] = <<>>]
    /\ UNCHANGED <<now, superu_enabled, provider_calls, followup_log, callback_result, storeVars,
                   tick_now, tick_keys, tick_calls, tick_call, manual_ticks, orchVars>>

TickProcessOther(t) ==
    \E response \in ProviderResponses :
        /\ TickProcessJob(t, response)
        /\ Head(tick_jobs[t]).id # loop.raising

RaisingTick ==
    \/ TickStart("scheduler")
    \/ TickEnqueue("scheduler")
    \/ TickSelectDue("scheduler")
    \/ TickProcessOther("scheduler")
    \/ TickRaises("scheduler")
    \/ TickSelectActive("scheduler")
    \/ TickPollCall("scheduler", ConvertedRow)
    \/ TickFollowup("scheduler")
    \/ TickEvaluateAlerts("scheduler")

InitRaising ==
    /\ \E settings \in LiveSettings : InitStoreAt(settings, TRUE, StartTime)
    /\ planner = Idle /\ request = Idle /\ run = Idle
    /\ session = Idle /\ admin = Idle /\ orders = Idle /\ breaker = Idle
    /\ \E job_id \in 0..MaxJobs : loop = RaisingStart(job_id)

\* The wait that follows every tick, for ever: the clock of the model counts
\* the minutes up to LiveHorizon and the ticks after that read LiveHorizon.
WaitLoop ==
    /\ UNCHANGED orchVars
    /\ pc["scheduler"] = "idle"
    /\ tick_now["scheduler"] = now
    /\ now' = Min(now + SecondsPerMinute, LiveHorizon)
    /\ tick_now' = [tick_now EXCEPT !["scheduler"] = NoTime]
    /\ UNCHANGED <<superu_enabled, provider_calls, followup_log, callback_result, storeVars,
                   pc, tick_keys, tick_jobs, tick_calls, tick_call, manual_ticks>>

NextRaising == RaisingTick \/ WaitLoop \/ EarlyCartUpdate

SpecRaising ==
    InitRaising /\ [][NextRaising]_vars /\ WF_vars(RaisingTick) /\ WF_vars(WaitLoop)

\* ------------------------------------------------------ support tickets
\* The chat's support agent and the voice follow-up write the same list of
\* tickets. A guest has user id "" and is known by the session.
MaxTickets == 2
MaxFollowups == 1
GuestSession == "session_guest"
Customers == {[user_id |-> u, session_id |-> "session_voice"] : u \in Users}
               \cup {[user_id |-> "", session_id |-> GuestSession]}

\* SupportRepository.list with status: the indexes of the rows it keeps, the
\* latest updatedAt first
ListTickets(tickets, user_id, session_id, status) ==
    {i \in 1..Len(tickets) :
        /\ user_id = "" \/ tickets[i].userId = user_id
        /\ session_id = "" \/ tickets[i].sessionId = session_id
        /\ status = "" \/ tickets[i].status = status}
TopTicket(tickets, rows) ==
    CHOOSE i \in rows : \A j \in rows : tickets[j].updatedAt <= tickets[i].updatedAt

\* SupportService.update_ticket with a note, with a status or with both
UpdateTicket(tickets, i, status, note) ==
    [tickets EXCEPT ![i] = [@ EXCEPT !.status = IF status = "" THEN @ ELSE status,
                                     !.followups = IF note THEN @ + 1 ELSE @,
                                     !.updatedAt = LastStamp(tickets) + 1]]

\* SupportService.ensure_open_ticket: the tickets after it
EnsureOpenTicket(tickets, user_id, session_id) ==
    LET existing == ListTickets(tickets, user_id,
                                IF user_id = "" THEN session_id ELSE "", "open")
    IN IF existing # {}
       THEN UpdateTicket(tickets, TopTicket(tickets, existing), "", TRUE)
       ELSE Append(tickets, Ticket(user_id, session_id, tickets))

FollowupsOf(tickets) ==
    Cardinality({<<i, k>> \in (1..Len(tickets)) \X (1..MaxFollowups) : k <= tickets[i].followups})

\* SupportAgent.execute, action create_ticket
Escalate(customer) ==
    /\ Len(support_tickets) < MaxTickets
    /\ FollowupsOf(support_tickets) < MaxFollowups
    /\ support_tickets' = EnsureOpenTicket(support_tickets, customer.user_id,
                                           customer.session_id)
    /\ UNCHANGED <<manual_ticks, now, superu_enabled, provider_calls, followup_log,
                   callback_result, voice_settings, users_by_id, carts_by_id,
                   voice_jobs_by_id, voice_calls_by_id, voice_suppressions_by_user,
                   voice_call_idempotency, voice_alerts, notifications, tickVars>>
    /\ UNCHANGED orchVars

\* SupportAgent.execute, action close_ticket without a ticket id
CloseTicket(customer) ==
    /\ LET open == ListTickets(support_tickets, customer.user_id,
                               IF customer.user_id = "" THEN customer.session_id ELSE "",
                               "open")
       IN /\ open # {}
          /\ support_tickets' = UpdateTicket(support_tickets,
                                             TopTicket(support_tickets, open),
                                             "resolved", FALSE)
    /\ UNCHANGED <<manual_ticks, now, superu_enabled, provider_calls, followup_log,
                   callback_result, voice_settings, users_by_id, carts_by_id,
                   voice_jobs_by_id, voice_calls_by_id, voice_suppressions_by_user,
                   voice_call_idempotency, voice_alerts, notifications, tickVars>>
    /\ UNCHANGED orchVars

\* The scheduler loop with a provider whose calls end in a request for a
\* callback, and the customers of the chat
HelpRow == [status |-> "completed", outcome |-> "requested_callback"]
NextSupport ==
    \/ Tick("scheduler", {"call_id"}, {HelpRow})
    \/ Advance
    \/ \E customer \in Customers : Escalate(customer)
    \/ \E customer \in Customers : CloseTicket(customer)

InitSupport == InitStore(BaseSettings, TRUE) /\ OrchestratorIdle

SpecSupport == InitSupport /\ [][NextSupport]_vars

\* Whether two tickets belong to the same customer
SameCustomer(a, b) ==
    IF a.userId # "" \/ b.userId # "" THEN a.userId = b.userId
    ELSE a.sessionId = b.sessionId

\* C30: at any time a user (a session, for a guest) has at most one open
\* support ticket: an escalation raised while one is open is appended to it.
C30_OneOpenTicketPerUser ==
    \A i, j \in 1..Len(support_tickets) :
        ( /\ SameCustomer(support_tickets[i], support_tickets[j])
          /\ support_tickets[i].status = "open"
          /\ support_tickets[j].status = "open" ) => i = j

\* What verify_integrity checks of the links: every entry's prevHash is the
\* entryHash of the entry before it, and the first one's is ""
ChainContiguous(logs) ==
    \A i \in 1..Len(logs) :
        logs[i].prevHash = IF i = 1 THEN EmptyHash ELSE logs[i - 1].entryHash

\* C27: after any sequence of record calls the first entry of the admin
\* activity log has prevHash "" and every later entry's prevHash is the
\* entryHash of the entry recorded just before it.
C27_HashChainLinked ==
    admin # Idle => ChainContiguous(admin.logs)

C27_Witness ==
    /\ admin # Idle
    /\ Len(admin.logs) >= 3
    /\ admin.logs[3].prevHash = admin.logs[2].entryHash
    /\ admin.logs[2].prevHash # admin.logs[3].prevHash

\* C28: the chain keeps the insertion order and stays contiguous when record
\* is called by concurrent requests: no two entries carry the same prevHash
\* and a reader finds every entry linked to the one before it.
C28_ChainContiguousUnderConcurrency ==
    admin # Idle =>
        /\ \A i, j \in 1..Len(admin.logs) :
               admin.logs[i].prevHash = admin.logs[j].prevHash => i = j
        /\ ChainContiguous(admin.logs)

\* C29: for a given user and Idempotency-Key at most one order is ever
\* created, and every create_order call with that pair that returns an order
\* returns that one.
C29_OneOrderPerIdempotencyKey ==
    orders # Idle =>
        /\ \A a, b \in orders.orders_by_id :
               a.createdFor = b.createdFor => a.id = b.id
        /\ \A r \in orders.returned :
               \E order \in orders.orders_by_id :
                   order.id = r.orderId /\ order.createdFor = r.key
        /\ \A r, s \in orders.returned : r.key = s.key => r.orderId = s.orderId

\* C26: within one session the interaction records are appended in the order
\* in which the messages arrived, and when a message is classified the record
\* of every earlier message of its session is in the recent it was given.
C26_RecordsObservableInArrivalOrder ==
    session # Idle =>
        /\ \A s \in SessionIds :
               \A i, j \in 1..Len(session.interactions[s]) :
                   i < j => session.interactions[s][i].id < session.interactions[s][j].id
        /\ \A i, j \in 1..Len(session.messages) :
               (i < j /\ session.messages[i].sessionId = session.messages[j].sessionId)
                   => \E k \in 1..Len(session.messages[j].recent) :
                          /\ session.messages[j].recent[k].sessionId
                                 = session.messages[j].sessionId
                          /\ session.messages[j].recent[k].id = session.messages[i].id

\* C31: after failure_threshold consecutive failed calls the circuit breaker
\* is open; while it is open and recovery_timeout has not elapsed a call is
\* rejected with CircuitBreakerOpenError and the wrapped function is not
\* invoked; the first call let through after the timeout that returns closes
\* the breaker.
C31_BreakerOpensRejectsRecovers ==
    /\ [](breaker # Idle =>
            (breaker.streak >= breaker.failure_threshold => breaker.state = "open"))
    /\ [][breaker # Idle /\ breaker' # breaker /\ breaker'.now = breaker.now
            => /\ (breaker.state = "open"
                     /\ breaker.now - breaker.opened_at < breaker.recovery_timeout)
                  => (breaker'.last = "rejected" /\ breaker'.invoked = breaker.invoked
                        /\ breaker'.state = "open")
               /\ (breaker.state = "open" /\ breaker'.last = "returned")
                  => (breaker'.state = "closed"
                        /\ breaker.now - breaker.opened_at >= breaker.recovery_timeout)]_vars

C31_Witness ==
    /\ breaker # Idle
    /\ breaker.failure_threshold = 2
    /\ breaker.state = "closed"
    /\ breaker.last = "returned"
    /\ breaker.invoked = 3
    /\ breaker.now >= breaker.recovery_timeout

\* C32: once the shutdown signal is set the scheduler loop starts no further
\* tick, it ends, and it has ended by the time one scan interval has passed.
C32_ShutdownStopsLoop ==
    /\ [][(loop # Idle /\ loop.stop) => loop'.ticks = loop.ticks]_vars
    /\ []((loop # Idle /\ loop.stop /\ loop.clock - loop.stop_at >= ScanInterval)
             => loop.pc = "done")
    /\ ((loop # Idle /\ loop.stop) ~> (loop.pc = "done"))

C32_Witness ==
    /\ loop # Idle
    /\ loop.stop
    /\ loop.ticks >= 1
    /\ loop.thread = "running"
    /\ loop.clock - loop.stop_at >= ScanInterval
    /\ loop.pc = "done"

\* C33: no provider call is dispatched about a cart that was converted into
\* an order, neither for a job enqueued before create_order succeeded nor for
\* one enqueued after it.
C33_NoCallAboutConvertedCart ==
    [][\A call \in BagToSet(provider_calls') :
          CopiesIn(call, provider_calls') > CopiesIn(call, provider_calls)
              => carts_by_id[call.recoveryKey[1]].status # "converted"]_vars

\* C34: while the voice settings have enabled = FALSE no tick dispatches a
\* provider call, the jobs that were queued or retrying when recovery was
\* disabled included.
C34_DisabledDispatchesNothing ==
    [][~voice_settings.enabled => provider_calls' = provider_calls]_vars

\* C35: within one UTC day start_outbound_call is invoked at most
\* maxCallsPerDay times, the retries of failed calls included.
C35_InvocationsWithinDailyCap ==
    DayOf(now) = DayOf(DayStart)
        => BagCardinality(provider_calls) <= voice_settings.maxCallsPerDay

\* C36: a retried job is not cancelled by the cap per user and day on
\* account of its own VoiceCall record: when a retrying job is cancelled with
\* max_calls_per_user_per_day_reached, the user has a call record of today
\* that belongs to another job.
C36_OwnRecordDoesNotCancelRetry ==
    [][\A i \in 1..Len(voice_jobs_by_id) :
          (/\ voice_jobs_by_id[i].status = "retrying"
           /\ voice_jobs_by_id'[i].status = "cancelled"
           /\ voice_jobs_by_id'[i].lastError = "max_calls_per_user_per_day_reached")
          => \E k \in CallsToday(voice_calls_by_id, tick_now["scheduler"]) :
                /\ voice_calls_by_id[k].userId = voice_jobs_by_id[i].userId
                /\ voice_calls_by_id[k].recoveryKey # voice_jobs_by_id[i].recoveryKey]_vars

\* C37: if ticks keep occurring, every enqueued job eventually reaches
\* completed, cancelled or dead_letter, whatever the provider answers and
\* whatever the quiet-hours window.
TerminalJobStatuses == {"completed", "cancelled", "dead_letter"}

C38_TerminalStatusesAbsorbing ==
    [][\A i \in 1..Len(voice_jobs_by_id) :
          voice_jobs_by_id[i].status \in TerminalJobStatuses
          => /\ voice_jobs_by_id'[i].status = voice_jobs_by_id[i].status
             /\ \A call \in BagToSet(provider_calls') :
                   call.jobId = i => CopiesIn(call, provider_calls') = CopiesIn(call, provider_calls)]_vars

\* C39: an exception raised while processing one due job does not keep the
\* other due jobs from being processed: the loop keeps ticking and every
\* other due job is processed in that tick or in a later one.
C39_OtherDueJobsProcessed ==
    \A i \in 1..MaxJobs :
        (Len(voice_jobs_by_id) >= i /\ i # loop.raising /\ IsDue(voice_jobs_by_id[i], now))
            ~> (Len(voice_jobs_by_id) >= i /\ ~IsDue(voice_jobs_by_id[i], now))

\* C40: verify_integrity never reports an issue for a log that was not
\* tampered with: it returns ok = true and no issues for every limit, after
\* any sequence of record and list_recent calls.
C40_UntamperedLogVerifies ==
    (admin # Idle /\ admin.report # NoReport)
        => (admin.report.ok /\ admin.report.issues = <<>>)

====
